---- MODULE Spec2Model ----
(***************************************************************************)
(* A model of the ride-sharing discrete-event simulation:                  *)
(*   container.py   PriorityQueue (the event queue)                        *)
(*   location.py    Location, manhattan_distance                           *)
(*   driver.py      Driver and its start/end drive/ride methods            *)
(*   rider.py       Rider and its status                                   *)
(*   dispatcher.py  Dispatcher.request_driver/request_rider/cancel_ride    *)
(*   event.py       the five events' do methods, create_event_list         *)
(*                                                                         *)
(* Three specifications share the variables:                               *)
(*   SpecPQ    PriorityQueue.add / remove called in any order              *)
(*   SpecDisp  the Dispatcher and Driver methods called in any order       *)
(*   Spec      the simulation: a batch of requests is loaded, then events  *)
(*             are executed one at a time in queue order                   *)
(***************************************************************************)
EXTENDS Integers, Sequences, FiniteSets, TLC

(***************************************************************************)
(* Bounds of the model.                                                    *)
(***************************************************************************)
\* largest timestamp of a request event of the input
MaxTime == 1
\* most items ever added to the queue in SpecPQ
MaxAdds == 4
\* longest waiting pool in SpecDisp
MaxPool == 3
\* longest initial batch of the simulation
MaxBatch == 5

\* Driver and Rider objects.  In the simulation a driver's id is its index
\* (create_event_list keeps one object per id); the client of SpecDisp may
\* construct two Driver objects of the same id.
Drivers == {1, 2}
Riders == {1, 2}
\* "no driver" / "no rider" (Python None as a return value)
NONE == 0
\* Python None in a Location-typed field
NoLoc == <<>>

\* rider.py:13-15
WAITING == "waiting"
CANCELLED == "cancelled"
SATISFIED == "satisfied"

(***************************************************************************)
(* Numbers.  Python's integers are unbounded and the model checker's are   *)
(* 32-bit, so a coordinate, a distance or a travel time n >= 0 is held as  *)
(* the pair <<n \div 10^9, n % 10^9>>.  Timestamps and patiences stay      *)
(* plain integers.                                                         *)
(***************************************************************************)
Billion == 1000000000

\* the pair of an integer 0 <= n < 2^31
Num(n) == <<n \div Billion, n % Billion>>
\* the integer of a pair (the model checker stops if it does not fit)
to_int(a) == a[1] * Billion + a[2]

\* a < b, a + b, abs(a - b)
num_lt(a, b) == a[1] < b[1] \/ (a[1] = b[1] /\ a[2] < b[2])
num_add(a, b) ==
    IF a[2] + b[2] >= Billion THEN <<a[1] + b[1] + 1, a[2] + b[2] - Billion>>
    ELSE <<a[1] + b[1], a[2] + b[2]>>
num_sub(a, b) ==
    IF a[2] >= b[2] THEN <<a[1] - b[1], a[2] - b[2]>>
    ELSE <<a[1] - b[1] - 1, a[2] + Billion - b[2]>>
num_abs_diff(a, b) == IF num_lt(a, b) THEN num_sub(b, a) ELSE num_sub(a, b)

(***************************************************************************)
(* location.py.  A location is <<row, column>>.                            *)
(***************************************************************************)
Location(row, column) == <<Num(row), Num(column)>>

manhattan_distance(origin, destination) ==
    num_add(num_abs_diff(destination[1], origin[1]),
            num_abs_diff(destination[2], origin[2]))

(***************************************************************************)
(* Python's round(n / d) for a number n >= 0 and a speed d of 1 or 2: the  *)
(* quotient is rounded to the nearest integer, a tie going to the even     *)
(* neighbour.  The division is done limb by limb; 10^9 is even, so the     *)
(* parity of the quotient is that of its low limb.  (n / d is a float in   *)
(* Python, exact for the magnitudes of the model, all below 2^53.)         *)
(***************************************************************************)
\* a rounding in which a tie goes up, which is not Python's
round_half_up(n, d) ==
    LET lo == (n[1] % d) * Billion + n[2]
        q == lo \div d
        r == lo % d
        q2 == IF 2 * r >= d THEN q + 1 ELSE q
    IN  IF q2 = Billion THEN <<n[1] \div d + 1, 0>> ELSE <<n[1] \div d, q2>>

round(n, d) ==
    LET lo == (n[1] % d) * Billion + n[2]
        q == lo \div d
        r == lo % d
        q2 == IF 2 * r < d THEN q
              ELSE IF 2 * r > d THEN q + 1
              ELSE IF q % 2 = 0 THEN q ELSE q + 1
    IN  IF q2 = Billion THEN <<n[1] \div d + 1, 0>> ELSE <<n[1] \div d, q2>>

(***************************************************************************)
(* driver.py.  A driver is a record                                        *)
(*   [id, location, speed, is_idle, destination].                          *)
(***************************************************************************)
Driver(identifier, location, speed) ==
    [id |-> identifier, location |-> location, speed |-> speed,
     is_idle |-> TRUE, destination |-> NoLoc]

\* Location.__eq__ reads other.row: comparing a Location with None raises.
\* Driver.__eq__ short-circuits on the id, so locations are compared only
\* between drivers of equal id.
driver_eq(a, b) ==
    a.id = b.id /\ a.location = b.location /\ a.speed = b.speed

\* get_travel_time raises (AttributeError) when the driver's location is None
travel_time_raises(d) == d.location = NoLoc

get_travel_time(d, destination) ==
    round(manhattan_distance(d.location, destination), d.speed)

start_drive(d, location) ==
    [d EXCEPT !.is_idle = FALSE, !.destination = location]

\* an end_drive that forgets to set is_idle
end_drive_stays_busy(d) ==
    [d EXCEPT !.location = d.destination, !.destination = NoLoc]

end_drive(d) ==
    [d EXCEPT !.location = d.destination, !.destination = NoLoc,
              !.is_idle = TRUE]

start_ride(d, r) ==
    [d EXCEPT !.is_idle = FALSE, !.destination = r.destination]

end_ride(d) ==
    [d EXCEPT !.is_idle = TRUE, !.location = d.destination,
              !.destination = NoLoc]

(***************************************************************************)
(* rider.py.  A rider is a record                                          *)
(*   [identifier, patience, origin, destination, status].                  *)
(***************************************************************************)
Rider(identifier, patience, origin, destination) ==
    [identifier |-> identifier, patience |-> patience, origin |-> origin,
     destination |-> destination, status |-> WAITING]

(***************************************************************************)
(* event.py: events.  An event is a record [kind, timestamp, driver,       *)
(* rider]; driver and rider are object indices, NONE when the kind has     *)
(* no such attribute.                                                      *)
(***************************************************************************)
RiderRequest(t, r) ==
    [kind |-> "RiderRequest", timestamp |-> t, driver |-> NONE, rider |-> r]
DriverRequest(t, d) ==
    [kind |-> "DriverRequest", timestamp |-> t, driver |-> d, rider |-> NONE]
Cancellation(t, r) ==
    [kind |-> "Cancellation", timestamp |-> t, driver |-> NONE, rider |-> r]
Pickup(t, d, r) ==
    [kind |-> "Pickup", timestamp |-> t, driver |-> d, rider |-> r]
Dropoff(t, d, r) ==
    [kind |-> "Dropoff", timestamp |-> t, driver |-> d, rider |-> r]
NoEvent ==
    [kind |-> "none", timestamp |-> 0, driver |-> NONE, rider |-> NONE]

\* Event.__lt__: timestamps only
event_lt(a, b) == a.timestamp < b.timestamp

\* Event.__eq__: timestamps only
event_eq(a, b) == a.timestamp = b.timestamp

\* == of two lists of events: equal lengths, items equal by Event.__eq__
event_list_eq(p, q) ==
    Len(p) = Len(q) /\ \A k \in DOMAIN p : event_eq(p[k], q[k])

(***************************************************************************)
(* container.py: PriorityQueue                                             *)
(***************************************************************************)
\* the loop of PriorityQueue.add from index i on
RECURSIVE add_loop(_, _, _, _, _)
add_loop(old, item, i, inserted, new_items) ==
    IF i > Len(old) THEN
        IF ~inserted THEN Append(new_items, item) ELSE new_items
    ELSE IF ~inserted /\ event_lt(item, old[i]) THEN
        add_loop(old, item, i + 1, TRUE, new_items \o <<item, old[i]>>)
    ELSE
        add_loop(old, item, i + 1, inserted, Append(new_items, old[i]))

\* a queue that appends without looking at the priorities
add_at_end(q, item) == Append(q, item)

\* a queue that inserts before the first item that is not smaller
RECURSIVE add_before_equal(_, _)
add_before_equal(q, item) ==
    IF q = <<>> THEN <<item>>
    ELSE IF item.timestamp <= Head(q).timestamp THEN <<item>> \o q
    ELSE <<Head(q)>> \o add_before_equal(Tail(q), item)

\* a queue in which, at equal timestamps, a DriverRequest goes before the
\* RiderRequests
RECURSIVE add_drivers_first(_, _)
add_drivers_first(q, item) ==
    IF q = <<>> THEN <<item>>
    ELSE IF \/ item.timestamp < Head(q).timestamp
            \/ /\ item.timestamp = Head(q).timestamp
               /\ item.kind = "DriverRequest"
               /\ Head(q).kind = "RiderRequest"
    THEN <<item>> \o q
    ELSE <<Head(q)>> \o add_drivers_first(Tail(q), item)

\* PriorityQueue.add: the new value of _items
add(q, item) == add_loop(q, item, 1, FALSE, <<>>)

\* PriorityQueue.remove: self._items.pop(0) raises IndexError on an empty list
remove_raises(q) == Len(q) = 0
\* a remove that returns the item at the back of the list
remove_item_from_back(q) == q[Len(q)]

remove_item(q) == Head(q)
\* a remove that returns the first item and leaves it in the list
remove_rest_keeps_item(q) == q

remove_rest(q) == Tail(q)

is_empty(q) == Len(q) = 0

(***************************************************************************)
(* State                                                                   *)
(***************************************************************************)
VARIABLES
    driver,       \* the Driver objects, by index
    rider,        \* the Rider objects, by index
    driver_list,  \* Dispatcher._driver_list
    rider_list,   \* Dispatcher._rider_list
    items,        \* PriorityQueue._items
    phase,        \* "pq", "api"; in the simulation "load", "run", "crashed"
    last,         \* the last call: operation, arguments, result
    added,        \* history: the items given to PriorityQueue.add, in order
    removes,      \* history: the number of PriorityQueue.remove calls that returned
    log           \* the notifications the monitor received, in order

vars ==
    <<driver, rider, driver_list, rider_list, items, phase, last, added,
      removes, log>>

\* how often x occurs in the list l
Count(l, x) == Cardinality({ i \in DOMAIN l : l[i] = x })

\* the record kept of a call; was is the status the rider of the call had
\* before it, had the number of times it was in the waiting pool
Call(op, d, r, ret, raised, event, emitted) ==
    [op |-> op, driver |-> d, rider |-> r, ret |-> ret, raised |-> raised,
     event |-> event, emitted |-> emitted,
     was |-> IF r # NONE THEN rider[r].status ELSE "none",
     had |-> IF r # NONE THEN Count(rider_list, r) ELSE 0]

NoCall == Call("none", NONE, NONE, NONE, FALSE, NoEvent, <<>>)

\* objects before their construction
UnbornDriver == Driver(NONE, Location(0, 0), 1)
UnbornRider == Rider(NONE, 0, Location(0, 0), Location(0, 0))

(***************************************************************************)
(* SpecPQ: the priority queue under any sequence of add and remove.  The   *)
(* items are request events as in a1_tests.py:213-237; every object is     *)
(* added once, so an item's identity is its kind and actor.                *)
(***************************************************************************)
Requests ==
    { RiderRequest(t, r) : t \in 0..MaxTime, r \in Riders }
        \cup { DriverRequest(t, d) : t \in 0..MaxTime, d \in Drivers }

SameObject(a, b) ==
    a.kind = b.kind /\ a.driver = b.driver /\ a.rider = b.rider

InitPQ ==
    /\ driver = [d \in Drivers |-> UnbornDriver]
    /\ rider = [r \in Riders |-> UnbornRider]
    /\ driver_list = <<>>
    /\ rider_list = <<>>
    /\ items = <<>>
    /\ phase = "pq"
    /\ last = NoCall
    /\ added = <<>>
    /\ removes = 0
    /\ log = <<>>

PQAdd(e) ==
    /\ Len(added) < MaxAdds
    /\ \A k \in DOMAIN added : ~SameObject(added[k], e)
    /\ items' = add(items, e)
    /\ added' = Append(added, e)
    /\ last' = Call("add", NONE, NONE, NONE, FALSE, e, <<>>)
    /\ UNCHANGED <<driver, rider, driver_list, rider_list, phase, removes, log>>

PQRemove ==
    /\ ~remove_raises(items)
    /\ items' = remove_rest(items)
    /\ removes' = removes + 1
    /\ last' = Call("remove", NONE, NONE, NONE, FALSE, remove_item(items), <<>>)
    /\ UNCHANGED <<driver, rider, driver_list, rider_list, phase, added, log>>

PQRemoveEmpty ==
    /\ remove_raises(items)
    /\ last.op # "remove" \/ ~last.raised
    /\ last' = Call("remove", NONE, NONE, NONE, TRUE, NoEvent, <<>>)
    /\ UNCHANGED <<driver, rider, driver_list, rider_list, items, phase, added, removes, log>>

NextPQ ==
    \/ \E e \in Requests : PQAdd(e)
    \/ PQRemove
    \/ PQRemoveEmpty

SpecPQ == InitPQ /\ [][NextPQ]_vars

(***************************************************************************)
(* Properties of the priority queue                                        *)
(***************************************************************************)
Sorted(q) == \A i, j \in DOMAIN q : i < j => ~event_lt(q[j], q[i])

\* the place of an item of the queue in the order of the add calls
AddedAt(e) == CHOOSE k \in DOMAIN added : added[k] = e

Tied(a, b) == ~event_lt(a, b) /\ ~event_lt(b, a)

\* C1: after any sequence of add and remove calls _items is sorted ascending
\* (no item is strictly less than an item before it), and the item a remove
\* returns is not greater than any item left in the queue, so repeated
\* removes return the items in ascending order.
C1_QueueSorted ==
    /\ Sorted(items)
    /\ (last.op = "remove" /\ ~last.raised) =>
           \A i \in DOMAIN items : ~event_lt(items[i], last.event)

\* C1 witness: items were added out of order, one was removed, and at least
\* two items of different priority are left
C1_Witness ==
    /\ last.op = "remove" /\ ~last.raised
    /\ Len(items) >= 2
    /\ event_lt(items[1], items[Len(items)])
    /\ \E k, j \in DOMAIN added : k < j /\ event_lt(added[j], added[k])

\* C2: items that compare neither less nor greater stay in the order of
\* their add calls, and add puts the new item after every item that is not
\* greater than it and immediately before the first item strictly greater.
C2_FifoTies ==
    /\ \A i, j \in DOMAIN items :
           (i < j /\ Tied(items[i], items[j]))
               => AddedAt(items[i]) < AddedAt(items[j])
    /\ last.op = "add" =>
           \E k \in DOMAIN items :
               /\ items[k] = last.event
               /\ \A j \in DOMAIN items : j < k => ~event_lt(last.event, items[j])
               /\ \A j \in DOMAIN items : j > k => event_lt(last.event, items[j])

\* C2 witness: the item just added went behind an item of equal priority
\* and in front of a greater one
C2_Witness ==
    /\ last.op = "add"
    /\ \E k \in DOMAIN items :
           /\ items[k] = last.event
           /\ k > 1 /\ k < Len(items)
           /\ Tied(items[k - 1], last.event)
           /\ event_lt(last.event, items[k + 1])

(***************************************************************************)
(* dispatcher.py.  The methods are operators from the dispatcher's lists   *)
(* and the objects to their new values, the return value and whether the   *)
(* call raised:  [dl, rl, drv, rdr, ret, raised].                          *)
(***************************************************************************)
Outcome(dl, rl, drv, rdr, ret, raised) ==
    [dl |-> dl, rl |-> rl, drv |-> drv, rdr |-> rdr, ret |-> ret,
     raised |-> raised]

\* driver in self._driver_list: the same object, or an equal one
driver_in(dl, drv, d) ==
    \E i \in DOMAIN dl : dl[i] = d \/ driver_eq(drv[d], drv[dl[i]])

\* rider in self._rider_list: Rider defines no __eq__, so the same object
rider_in(rl, r) == \E i \in DOMAIN rl : rl[i] = r

\* list.remove(x): the first occurrence goes
RECURSIVE list_remove(_, _)
list_remove(l, x) ==
    IF l = <<>> THEN <<>>
    ELSE IF Head(l) = x THEN Tail(l)
    ELSE <<Head(l)>> \o list_remove(Tail(l), x)

\* curr_min = 10000000000
InitialMin == <<10, 0>>

\* a scan in which a later driver of equal travel time replaces the current one
RECURSIVE driver_scan_last_wins(_, _, _, _, _, _)
driver_scan_last_wins(dl, drv, origin, i, curr_min, curr_driver) ==
    IF i > Len(dl) THEN curr_driver
    ELSE IF drv[dl[i]].is_idle
              /\ ~num_lt(curr_min, get_travel_time(drv[dl[i]], origin)) THEN
        driver_scan_last_wins(dl, drv, origin, i + 1,
                              get_travel_time(drv[dl[i]], origin), dl[i])
    ELSE driver_scan_last_wins(dl, drv, origin, i + 1, curr_min, curr_driver)

\* the loop of request_driver from index i on: the driver it ends with
RECURSIVE driver_scan(_, _, _, _, _, _)
driver_scan(dl, drv, origin, i, curr_min, curr_driver) ==
    IF i > Len(dl) THEN curr_driver
    ELSE IF drv[dl[i]].is_idle
              /\ num_lt(get_travel_time(drv[dl[i]], origin), curr_min) THEN
        driver_scan(dl, drv, origin, i + 1,
                    get_travel_time(drv[dl[i]], origin), dl[i])
    ELSE driver_scan(dl, drv, origin, i + 1, curr_min, curr_driver)

\* the loop calls get_travel_time for every idle driver of the list, and
\* raises, before anything is changed, if one of them has no location
scan_raises(dl, drv) ==
    \E i \in DOMAIN dl : drv[dl[i]].is_idle /\ travel_time_raises(drv[dl[i]])

\* a request_driver that takes a driver without taking the rider off the pool
request_driver_keeps_rider(dl, rl, drv, rdr, r) ==
    LET curr_driver == driver_scan(dl, drv, rdr[r].origin, 1, InitialMin, NONE)
    IN  IF curr_driver # NONE
        THEN Outcome(dl, rl, drv, rdr, curr_driver, FALSE)
        ELSE Outcome(dl, Append(rl, r), drv, rdr, NONE, FALSE)

\* a request_driver that puts the waiting rider at the head of the pool
request_driver_jumps_queue(dl, rl, drv, rdr, r) ==
    LET curr_driver == driver_scan(dl, drv, rdr[r].origin, 1, InitialMin, NONE)
    IN  IF curr_driver # NONE
        THEN Outcome(dl, IF rider_in(rl, r) THEN list_remove(rl, r) ELSE rl,
                     drv, rdr, curr_driver, FALSE)
        ELSE Outcome(dl, <<r>> \o rl, drv, rdr, NONE, FALSE)

\* a request_driver that also starts the matched driver's drive
request_driver_starts_drive(dl, rl, drv, rdr, r) ==
    LET curr_driver == driver_scan(dl, drv, rdr[r].origin, 1, InitialMin, NONE)
    IN  IF curr_driver # NONE
        THEN Outcome(dl, IF rider_in(rl, r) THEN list_remove(rl, r) ELSE rl,
                     [drv EXCEPT ![curr_driver] =
                          start_drive(drv[curr_driver], rdr[r].origin)],
                     rdr, curr_driver, FALSE)
        ELSE Outcome(dl, Append(rl, r), drv, rdr, NONE, FALSE)

\* a request_driver that queues the waiting rider twice
request_driver_appends_twice(dl, rl, drv, rdr, r) ==
    IF scan_raises(dl, drv) THEN Outcome(dl, rl, drv, rdr, NONE, TRUE)
    ELSE
        LET curr_driver == driver_scan(dl, drv, rdr[r].origin, 1, InitialMin, NONE)
        IN  IF curr_driver # NONE
            THEN Outcome(dl,
                         IF rider_in(rl, r) THEN list_remove(rl, r) ELSE rl,
                         drv, rdr, curr_driver, FALSE)
            ELSE Outcome(dl, rl \o <<r, r>>, drv, rdr, NONE, FALSE)

request_driver(dl, rl, drv, rdr, r) ==
    IF scan_raises(dl, drv) THEN Outcome(dl, rl, drv, rdr, NONE, TRUE)
    ELSE
        LET curr_driver == driver_scan(dl, drv, rdr[r].origin, 1, InitialMin, NONE)
        IN  IF curr_driver # NONE
            THEN Outcome(dl,
                         IF rider_in(rl, r) THEN list_remove(rl, r) ELSE rl,
                         drv, rdr, curr_driver, FALSE)
            ELSE Outcome(dl, Append(rl, r), drv, rdr, NONE, FALSE)

\* a request_rider that registers the driver on every call
request_rider_always_registers(dl, rl, drv, rdr, d) ==
    IF Len(rl) = 0 THEN Outcome(Append(dl, d), rl, drv, rdr, NONE, FALSE)
    ELSE Outcome(Append(dl, d), Tail(rl),
                 [drv EXCEPT ![d] = start_drive(drv[d], rdr[Head(rl)].origin)],
                 rdr, Head(rl), FALSE)

\* a request_rider that hands out the rider who came last
request_rider_takes_last(dl, rl, drv, rdr, d) ==
    LET dl1 == IF ~driver_in(dl, drv, d) THEN Append(dl, d) ELSE dl
    IN  IF Len(rl) = 0 THEN Outcome(dl1, rl, drv, rdr, NONE, FALSE)
        ELSE Outcome(dl1, SubSeq(rl, 1, Len(rl) - 1),
                     [drv EXCEPT ![d] =
                          start_drive(drv[d], rdr[rl[Len(rl)]].origin)],
                     rdr, rl[Len(rl)], FALSE)

\* start_drive sets is_idle and destination, then get_travel_time raises if
\* the driver has no location: the rider is popped and lost
request_rider(dl, rl, drv, rdr, d) ==
    LET dl1 == IF ~driver_in(dl, drv, d) THEN Append(dl, d) ELSE dl
    IN  IF Len(rl) = 0 THEN Outcome(dl1, rl, drv, rdr, NONE, FALSE)
        ELSE
            LET r == Head(rl)
                drv1 == [drv EXCEPT ![d] = start_drive(drv[d], rdr[r].origin)]
            IN  IF travel_time_raises(drv[d])
                THEN Outcome(dl1, Tail(rl), drv1, rdr, NONE, TRUE)
                ELSE Outcome(dl1, Tail(rl), drv1, rdr, r, FALSE)

\* a cancel_ride that leaves the rider in the pool
cancel_ride_keeps_rider(dl, rl, drv, rdr, r) ==
    Outcome(dl, rl, drv, [rdr EXCEPT ![r].status = CANCELLED], NONE, FALSE)

\* a cancel_ride that leaves the status alone
cancel_ride_keeps_status(dl, rl, drv, rdr, r) ==
    Outcome(dl, IF rider_in(rl, r) THEN list_remove(rl, r) ELSE rl,
            drv, rdr, NONE, FALSE)

cancel_ride(dl, rl, drv, rdr, r) ==
    Outcome(dl, IF rider_in(rl, r) THEN list_remove(rl, r) ELSE rl,
            drv, [rdr EXCEPT ![r].status = CANCELLED], NONE, FALSE)

(***************************************************************************)
(* SpecDisp: the Dispatcher's and the Driver's methods called in any       *)
(* order on a dispatcher that starts empty.  The callers keep the          *)
(* documented preconditions of end_drive and end_ride (destination is not  *)
(* None).                                                                  *)
(***************************************************************************)
\* the riders of SpecDisp: origin and destination
ApiRiders == << [origin |-> Location(0, 1), destination |-> Location(0, 0)],
               [origin |-> Location(0, 0), destination |-> Location(0, 1)] >>
\* Location(20000000000, 0)
FarAway == << <<20, 0>>, Num(0) >>
\* the drivers of SpecDisp, as constructed by the client: two drivers of
\* different ids and speeds at the same place, the same with the second
\* far away, or two Driver objects of the same id, location and speed
ApiDrivers ==
    { << Driver(1, Location(0, 0), 2), Driver(2, Location(0, 0), 1) >>,
      << Driver(1, Location(0, 0), 2), Driver(2, FarAway, 1) >>,
      << Driver(1, Location(0, 0), 1), Driver(1, Location(0, 0), 1) >> }

InitDisp ==
    /\ driver \in { [d \in Drivers |-> fleet[d]] : fleet \in ApiDrivers }
    /\ rider = [r \in Riders |->
                   Rider(r, 0, ApiRiders[r].origin, ApiRiders[r].destination)]
    /\ driver_list = <<>>
    /\ rider_list = <<>>
    /\ items = <<>>
    /\ phase = "api"
    /\ last = NoCall
    /\ added = <<>>
    /\ removes = 0
    /\ log = <<>>

\* the state after a dispatcher call with outcome o
DispatcherCall(op, d, r, o) ==
    /\ Len(o.rl) <= MaxPool
    /\ driver_list' = o.dl
    /\ rider_list' = o.rl
    /\ driver' = o.drv
    /\ rider' = o.rdr
    /\ last' = Call(op, d, r, o.ret, o.raised, NoEvent, <<>>)
    /\ UNCHANGED <<items, phase, added, removes, log>>

DispRequestDriver(r) ==
    DispatcherCall("request_driver", NONE, r,
                   request_driver(driver_list, rider_list, driver, rider, r))

DispRequestRider(d) ==
    DispatcherCall("request_rider", d, NONE,
                   request_rider(driver_list, rider_list, driver, rider, d))

DispCancelRide(r) ==
    DispatcherCall("cancel_ride", NONE, r,
                   cancel_ride(driver_list, rider_list, driver, rider, r))

\* a Driver method called on driver d; ret is the travel time it returns
DriverCall(op, d, r, after, ret) ==
    /\ driver' = [driver EXCEPT ![d] = after]
    /\ last' = Call(op, d, r, ret, FALSE, NoEvent, <<>>)
    /\ UNCHANGED <<rider, driver_list, rider_list, items, phase, added, removes, log>>

DrvStartDrive(d, r) ==
    DriverCall("start_drive", d, r, start_drive(driver[d], rider[r].origin),
               get_travel_time(driver[d], rider[r].origin))

DrvEndDrive(d) ==
    /\ driver[d].destination # NoLoc
    /\ DriverCall("end_drive", d, NONE, end_drive(driver[d]), NONE)

DrvStartRide(d, r) ==
    DriverCall("start_ride", d, r, start_ride(driver[d], rider[r]),
               get_travel_time(driver[d], rider[r].destination))

DrvEndRide(d) ==
    /\ driver[d].destination # NoLoc
    /\ DriverCall("end_ride", d, NONE, end_ride(driver[d]), NONE)

\* self.rider.status = SATISFIED (Pickup.do)
RiderSatisfied(r) ==
    /\ rider[r].status = WAITING
    /\ rider' = [rider EXCEPT ![r].status = SATISFIED]
    /\ last' = Call("satisfied", NONE, r, NONE, FALSE, NoEvent, <<>>)
    /\ UNCHANGED <<driver, driver_list, rider_list, items, phase, added, removes, log>>

NextDisp ==
    \/ \E r \in Riders : DispRequestDriver(r)
    \/ \E d \in Drivers : DispRequestRider(d)
    \/ \E r \in Riders : DispCancelRide(r)
    \/ \E d \in Drivers, r \in Riders : DrvStartDrive(d, r)
    \/ \E d \in Drivers : DrvEndDrive(d)
    \/ \E d \in Drivers, r \in Riders : DrvStartRide(d, r)
    \/ \E d \in Drivers : DrvEndRide(d)
    \/ \E r \in Riders : RiderSatisfied(r)

SpecDisp == InitDisp /\ [][NextDisp]_vars

(***************************************************************************)
(* Properties of the dispatcher                                            *)
(***************************************************************************)
\* the integer nearest to n / d, the even one of two equally near
NearestEven(n, d) ==
    CHOOSE k \in 0..(n + 1) :
        \/ (2 * (n - k * d) < d /\ 2 * (k * d - n) < d)
        \/ (2 * (n - k * d) = d \/ 2 * (k * d - n) = d) /\ k % 2 = 0

\* the rounded travel time of driver d to the origin of rider r, found
\* without round whenever the distance is less than 10^9
RoundedTime(d, r) ==
    LET distance == manhattan_distance(driver[d].location, rider[r].origin)
    IN  IF distance[1] = 0 THEN Num(NearestEven(distance[2], driver[d].speed))
        ELSE round(distance, driver[d].speed)

IdleAt(k) == driver[driver_list[k]].is_idle

Others(l, x) == SelectSeq(l, LAMBDA y : y # x)

NoIdleDriver == \A k \in DOMAIN driver_list : ~IdleAt(k)

\* driver_list[k] is idle, no idle registered driver has a smaller rounded
\* travel time to the origin of rider r, and every idle one before it in
\* driver_list has a greater one
NearestIdle(k, r) ==
    /\ IdleAt(k)
    /\ \A j \in DOMAIN driver_list :
          IdleAt(j) => ~num_lt(RoundedTime(driver_list[j], r),
                               RoundedTime(driver_list[k], r))
    /\ \A j \in DOMAIN driver_list :
          (j < k /\ IdleAt(j)) => num_lt(RoundedTime(driver_list[k], r),
                                         RoundedTime(driver_list[j], r))

\* C3 as claimed: whenever a registered driver is idle, request_driver
\* returns the idle registered driver of least rounded travel time (round
\* half to even) to the rider's origin, the first such in driver_list; it
\* never returns a driver that is not idle or not registered.
C3_Original ==
    [][ last'.op = "request_driver" =>
          /\ (\E k \in DOMAIN driver_list : IdleAt(k)) =>
                \E k \in DOMAIN driver_list :
                    last'.ret = driver_list[k] /\ NearestIdle(k, last'.rider)
          /\ last'.ret # NONE =>
                \E k \in DOMAIN driver_list :
                    last'.ret = driver_list[k] /\ IdleAt(k)
      ]_vars

\* C3 below the initial curr_min: whenever some idle registered driver has
\* a rounded travel time of less than 10000000000, request_driver returns
\* the nearest idle registered driver, the first such in driver_list; when
\* every idle registered driver is at 10000000000 or more it returns none.
C3_NearestIdleDriver ==
    [][ last'.op = "request_driver" =>
          /\ (\E k \in DOMAIN driver_list :
                  /\ IdleAt(k)
                  /\ num_lt(RoundedTime(driver_list[k], last'.rider),
                            InitialMin)) =>
                \E k \in DOMAIN driver_list :
                    last'.ret = driver_list[k] /\ NearestIdle(k, last'.rider)
          /\ (\A k \in DOMAIN driver_list :
                  IdleAt(k) =>
                      ~num_lt(RoundedTime(driver_list[k], last'.rider),
                              InitialMin)) =>
                last'.ret = NONE
          /\ last'.ret # NONE =>
                \E k \in DOMAIN driver_list :
                    last'.ret = driver_list[k] /\ IdleAt(k)
      ]_vars

\* C3 witness: two idle registered drivers tie in rounded travel time, the
\* first of the list is farther from the rider, and it was returned
C3_Witness ==
    /\ last.op = "request_driver"
    /\ Len(driver_list) = 2
    /\ IdleAt(1) /\ IdleAt(2)
    /\ last.ret = driver_list[1]
    /\ RoundedTime(driver_list[1], last.rider)
         = RoundedTime(driver_list[2], last.rider)
    /\ num_lt(manhattan_distance(driver[driver_list[2]].location,
                                 rider[last.rider].origin),
              manhattan_distance(driver[driver_list[1]].location,
                                 rider[last.rider].origin))

\* C3, the failing case: the only registered driver is idle, 20000000000
\* away, and request_driver returned none and queued the rider
C3_FarDriverPassedOver ==
    /\ last.op = "request_driver"
    /\ Len(driver_list) = 1
    /\ IdleAt(1)
    /\ driver[driver_list[1]].location = FarAway
    /\ last.ret = NONE
    /\ ~last.raised
    /\ rider_list = <<last.rider>>

\* C4 as claimed: with no idle registered driver request_driver returns
\* none and the rider then occurs exactly once in the pool, at its tail,
\* the other riders keeping their order.
C4_Original ==
    [][ (last'.op = "request_driver" /\ NoIdleDriver) =>
          /\ last'.ret = NONE
          /\ Count(rider_list', last'.rider) = 1
          /\ rider_list'[Len(rider_list')] = last'.rider
          /\ Others(rider_list', last'.rider) = Others(rider_list, last'.rider)
      ]_vars

\* C4 amended: with no idle registered driver request_driver returns none
\* and appends the rider at the tail of the pool, the earlier entries
\* staying as they were; the rider occurs exactly once afterwards if it was
\* not in the pool before the call.
C4_AppendsAtTail ==
    [][ (last'.op = "request_driver" /\ NoIdleDriver) =>
          /\ last'.ret = NONE
          /\ rider_list' = Append(rider_list, last'.rider)
          /\ Count(rider_list, last'.rider) = 0
                => Count(rider_list', last'.rider) = 1
      ]_vars

\* C4 witness: a registered driver is busy, and the rider was put behind
\* another waiting rider
C4_Witness ==
    /\ last.op = "request_driver" /\ last.ret = NONE
    /\ driver_list # <<>> /\ NoIdleDriver
    /\ Len(rider_list) >= 2
    /\ rider_list[Len(rider_list)] = last.rider
    /\ Count(rider_list, last.rider) = 1

\* C5 as claimed: whenever request_driver returns a driver the rider is not
\* in the pool afterwards.
C5_Original ==
    [][ (last'.op = "request_driver" /\ last'.ret # NONE) =>
          Count(rider_list', last'.rider) = 0
      ]_vars

\* C5 amended: whenever request_driver returns a driver, the first
\* occurrence of the rider in the pool, if there is one, has been removed
\* and nothing else has changed in the pool; so a rider that occurred at
\* most once in the pool before the call is not in it afterwards.
C5_MatchedRiderLeavesPool ==
    [][ (last'.op = "request_driver" /\ last'.ret # NONE) =>
          /\ Others(rider_list', last'.rider) = Others(rider_list, last'.rider)
          /\ Count(rider_list, last'.rider) >= 1 =>
                /\ Count(rider_list', last'.rider)
                     = Count(rider_list, last'.rider) - 1
                /\ \E k \in DOMAIN rider_list :
                      /\ rider_list[k] = last'.rider
                      /\ \A j \in 1..(k - 1) : rider_list[j] # last'.rider
                      /\ rider_list' = SubSeq(rider_list, 1, k - 1)
                                         \o SubSeq(rider_list, k + 1,
                                                   Len(rider_list))
          /\ Count(rider_list, last'.rider) <= 1
                => Count(rider_list', last'.rider) = 0
      ]_vars

\* C5 witness: a rider that was waiting in the pool was matched and is no
\* longer in it, and another rider is still waiting
C5_Witness ==
    /\ last.op = "request_driver" /\ last.ret # NONE
    /\ last.had = 1
    /\ rider_list # <<>>
    /\ Count(rider_list, last.rider) = 0

\* C6: request_driver leaves driver_list and every driver's is_idle,
\* destination and location unchanged, match or no match; only
\* request_rider adds a driver to driver_list.
C6_RequestDriverFrame ==
    [][ /\ last'.op = "request_driver" =>
              driver_list' = driver_list /\ driver' = driver
        /\ driver_list' # driver_list =>
              /\ last'.op = "request_rider"
              /\ driver_list' = Append(driver_list, last'.driver)
      ]_vars

\* C6 witness: request_driver returned a driver, who is still idle and
\* without destination
C6_Witness ==
    /\ last.op = "request_driver" /\ last.ret # NONE
    /\ driver[last.ret].is_idle
    /\ driver[last.ret].destination = NoLoc
    /\ Len(driver_list) = 2

\* C7: request_rider with a non-empty pool removes and returns the head of
\* the pool, leaves the remaining riders in their order and the driver with
\* is_idle false and destination the rider's origin; with an empty pool it
\* returns none and leaves the driver's is_idle, destination and location
\* unchanged.
C7_RequestRiderFifo ==
    [][ last'.op = "request_rider" =>
          IF rider_list # <<>>
          THEN /\ last'.ret = Head(rider_list)
               /\ rider_list' = Tail(rider_list)
               /\ ~driver'[last'.driver].is_idle
               /\ driver'[last'.driver].destination
                    = rider[Head(rider_list)].origin
          ELSE /\ last'.ret = NONE
               /\ rider_list' = <<>>
               /\ driver'[last'.driver] = driver[last'.driver]
      ]_vars

\* C7 witness: the head of a pool of three was handed out and two riders,
\* different ones, are left
C7_Witness ==
    /\ last.op = "request_rider" /\ last.ret # NONE
    /\ Len(rider_list) = 2
    /\ rider_list[1] # rider_list[2]
    /\ last.ret = rider_list[2]
    /\ ~driver[last.driver].is_idle

\* C8 as claimed: after request_rider(driver) the driver is registered
\* (driver in driver_list), and registration is idempotent: driver_list
\* never holds a driver twice, nor two entries equal under the driver
\* equality (id, location, speed).
C8_Original ==
    /\ last.op = "request_rider" => driver_in(driver_list, driver, last.driver)
    /\ \A i, j \in DOMAIN driver_list :
           i # j => /\ driver_list[i] # driver_list[j]
                    /\ ~driver_eq(driver[driver_list[i]],
                                  driver[driver_list[j]])

\* C8 amended: after request_rider(driver) the driver is registered (it or
\* a driver equal to it is in driver_list); request_rider appends the
\* driver, at the end, exactly when no entry was the driver or equal to it
\* at the time of the call, and otherwise leaves driver_list as it was;
\* driver_list never holds the same Driver object twice, and two entries of
\* different ids are never equal.  (Two Driver objects of the same id and
\* speed, registered while at different locations, are both in driver_list
\* and equal once they are at the same location.)
C8_RegisteredOnce ==
    /\ [](/\ last.op = "request_rider" =>
                 driver_in(driver_list, driver, last.driver)
          /\ \A i, j \in DOMAIN driver_list :
                 i # j => /\ driver_list[i] # driver_list[j]
                          /\ (driver[driver_list[i]].id
                                 # driver[driver_list[j]].id
                               => ~driver_eq(driver[driver_list[i]],
                                             driver[driver_list[j]])))
    /\ [][ last'.op = "request_rider" =>
             driver_list' = IF driver_in(driver_list, driver, last'.driver)
                            THEN driver_list
                            ELSE Append(driver_list, last'.driver) ]_vars

\* C8 witness: a Driver object equal to a registered one asked for a rider
\* and was not appended, there being a rider for it
C8_Witness ==
    /\ last.op = "request_rider"
    /\ Len(driver_list) = 1
    /\ driver_list[1] # last.driver
    /\ last.ret # NONE

\* C8, the refuting state: two entries of driver_list are equal
C8_EqualEntries ==
    /\ Len(driver_list) = 2
    /\ driver_eq(driver[driver_list[1]], driver[driver_list[2]])

\* C9 as claimed: cancel_ride leaves the rider absent from the pool and
\* CANCELLED whatever its status was; the pool is unchanged if the rider was
\* not in it; the other waiting riders and driver_list are unchanged.
C9_Original ==
    [][ last'.op = "cancel_ride" =>
          /\ Count(rider_list', last'.rider) = 0
          /\ rider'[last'.rider].status = CANCELLED
          /\ Count(rider_list, last'.rider) = 0 => rider_list' = rider_list
          /\ Others(rider_list', last'.rider) = Others(rider_list, last'.rider)
          /\ driver_list' = driver_list
      ]_vars

\* C9 amended: cancel_ride removes the first occurrence of the rider from
\* the pool, if there is one, and leaves the rider CANCELLED whatever its
\* status was (SATISFIED too); a rider that occurred at most once in the
\* pool is absent from it afterwards; the pool is unchanged if the rider
\* was not in it; the other waiting riders, the other riders' status,
\* driver_list and the drivers are unchanged.
C9_CancelRide ==
    [][ last'.op = "cancel_ride" =>
          /\ rider'[last'.rider].status = CANCELLED
          /\ Count(rider_list, last'.rider) = 0 => rider_list' = rider_list
          /\ Count(rider_list, last'.rider) >= 1 =>
                Count(rider_list', last'.rider)
                    = Count(rider_list, last'.rider) - 1
          /\ Count(rider_list, last'.rider) <= 1
                => Count(rider_list', last'.rider) = 0
          /\ Others(rider_list', last'.rider) = Others(rider_list, last'.rider)
          /\ \A r \in Riders : r # last'.rider => rider'[r] = rider[r]
          /\ driver_list' = driver_list
          /\ driver' = driver
      ]_vars

\* C9 witness: a rider that was SATISFIED and in the pool is CANCELLED and
\* out of the pool after cancel_ride, with another rider waiting and a
\* driver registered
C9_Witness ==
    /\ last.op = "cancel_ride"
    /\ last.was = SATISFIED
    /\ last.had = 1
    /\ rider[last.rider].status = CANCELLED
    /\ rider_list # <<>>
    /\ Count(rider_list, last.rider) = 0
    /\ driver_list # <<>>

(***************************************************************************)
(* event.py: the events' do methods.  Each is an operator from the event   *)
(* and the state to                                                        *)
(*   [dl, rl, drv, rdr, events, notes, ret, raised]:                       *)
(* the new lists and objects, the events returned, the notifications sent  *)
(* to the monitor, the driver or rider the dispatcher returned, and        *)
(* whether an exception left do (then events is not returned).             *)
(***************************************************************************)
\* monitor.py: the categories and actions of a notification
RIDER == "rider"
DRIVER == "driver"
REQUEST == "request"
CANCEL == "cancel"
PICKUP == "pickup"
DROPOFF == "dropoff"

\* monitor.notify(timestamp, category, description, identifier, location)
Note(t, category, description, identifier, location) ==
    [time |-> t, category |-> category, description |-> description,
     id |-> identifier, location |-> location]

Done(dl, rl, drv, rdr, events, notes, ret, raised) ==
    [dl |-> dl, rl |-> rl, drv |-> drv, rdr |-> rdr, events |-> events,
     notes |-> notes, ret |-> ret, raised |-> raised]

\* a RiderRequest whose Cancellation is due at once, whatever the patience
RiderRequest_do_impatient(e, dl, rl, drv, rdr) ==
    LET r == e.rider
        notes == << Note(e.timestamp, RIDER, REQUEST, rdr[r].identifier,
                         rdr[r].origin) >>
        o == request_driver(dl, rl, drv, rdr, r)
        cancellation == Cancellation(e.timestamp, r)
    IN  IF o.raised
        THEN Done(o.dl, o.rl, o.drv, o.rdr, <<>>, notes, NONE, TRUE)
        ELSE IF o.ret # NONE
        THEN LET travel_time == get_travel_time(o.drv[o.ret], rdr[r].origin)
             IN  Done(o.dl, o.rl,
                      [o.drv EXCEPT ![o.ret] =
                           start_drive(o.drv[o.ret], rdr[r].origin)],
                      o.rdr,
                      << Pickup(e.timestamp + to_int(travel_time), o.ret, r),
                         cancellation >>,
                      notes, o.ret, FALSE)
        ELSE Done(o.dl, o.rl, o.drv, o.rdr, << cancellation >>, notes,
                  NONE, FALSE)

RiderRequest_do(e, dl, rl, drv, rdr) ==
    LET r == e.rider
        notes == << Note(e.timestamp, RIDER, REQUEST, rdr[r].identifier,
                         rdr[r].origin) >>
        o == request_driver(dl, rl, drv, rdr, r)
        cancellation == Cancellation(e.timestamp + rdr[r].patience, r)
    IN  IF o.raised
        THEN Done(o.dl, o.rl, o.drv, o.rdr, <<>>, notes, NONE, TRUE)
        ELSE IF o.ret # NONE
        THEN LET travel_time == get_travel_time(o.drv[o.ret], rdr[r].origin)
             IN  Done(o.dl, o.rl,
                      [o.drv EXCEPT ![o.ret] =
                           start_drive(o.drv[o.ret], rdr[r].origin)],
                      o.rdr,
                      << Pickup(e.timestamp + to_int(travel_time), o.ret, r),
                         cancellation >>,
                      notes, o.ret, FALSE)
        ELSE Done(o.dl, o.rl, o.drv, o.rdr, << cancellation >>, notes,
                  NONE, FALSE)

DriverRequest_do(e, dl, rl, drv, rdr) ==
    LET d == e.driver
        notes == << Note(e.timestamp, DRIVER, REQUEST, drv[d].id,
                         drv[d].location) >>
        o == request_rider(dl, rl, drv, rdr, d)
    IN  IF o.raised
        THEN Done(o.dl, o.rl, o.drv, o.rdr, <<>>, notes, NONE, TRUE)
        ELSE IF o.ret # NONE
        THEN LET travel_time ==
                     get_travel_time(o.drv[d], o.rdr[o.ret].origin)
             IN  Done(o.dl, o.rl,
                      [o.drv EXCEPT ![d] =
                           start_drive(o.drv[d], o.rdr[o.ret].origin)],
                      o.rdr,
                      << Pickup(e.timestamp + to_int(travel_time), d, o.ret) >>,
                      notes, o.ret, FALSE)
        ELSE Done(o.dl, o.rl, o.drv, o.rdr, <<>>, notes, NONE, FALSE)

\* a Cancellation that does not look at the rider's status
Cancellation_do_unguarded(e, dl, rl, drv, rdr) ==
    LET r == e.rider
        o == cancel_ride(dl, rl, drv, [rdr EXCEPT ![r].status = CANCELLED], r)
    IN  Done(o.dl, o.rl, o.drv, o.rdr, <<>>,
             << Note(e.timestamp, RIDER, CANCEL, rdr[r].identifier,
                     rdr[r].origin) >>,
             NONE, FALSE)

\* a Cancellation that reports nothing to the monitor
Cancellation_do_unreported(e, dl, rl, drv, rdr) ==
    LET r == e.rider
    IN  IF rdr[r].status # SATISFIED
        THEN LET o == cancel_ride(dl, rl, drv,
                                  [rdr EXCEPT ![r].status = CANCELLED], r)
             IN  Done(o.dl, o.rl, o.drv, o.rdr, <<>>, <<>>, NONE, FALSE)
        ELSE Done(dl, rl, drv, rdr, <<>>, <<>>, NONE, FALSE)

Cancellation_do(e, dl, rl, drv, rdr) ==
    LET r == e.rider
    IN  IF rdr[r].status # SATISFIED
        THEN LET o == cancel_ride(dl, rl, drv,
                                  [rdr EXCEPT ![r].status = CANCELLED], r)
             IN  Done(o.dl, o.rl, o.drv, o.rdr, <<>>,
                      << Note(e.timestamp, RIDER, CANCEL, rdr[r].identifier,
                              rdr[r].origin) >>,
                      NONE, FALSE)
        ELSE Done(dl, rl, drv, rdr, <<>>, <<>>, NONE, FALSE)

Pickup_do(e, dl, rl, drv, rdr) ==
    LET d == e.driver
        r == e.rider
        arrived == end_drive(drv[d])
        notes == << Note(e.timestamp, DRIVER, PICKUP, arrived.id,
                         arrived.location) >>
    IN  IF rdr[r].status = WAITING
        THEN LET riding == start_ride(arrived, rdr[r])
                 drv1 == [drv EXCEPT ![d] = riding]
             IN  IF travel_time_raises(arrived)
                 THEN Done(dl, rl, drv1, rdr, <<>>, notes, NONE, TRUE)
                 ELSE Done(dl, rl, drv1,
                           [rdr EXCEPT ![r].status = SATISFIED],
                           << Dropoff(e.timestamp
                                        + to_int(get_travel_time(
                                              arrived, rdr[r].destination)),
                                      d, r) >>,
                           Append(notes,
                                  Note(e.timestamp, RIDER, PICKUP,
                                       rdr[r].identifier, rdr[r].origin)),
                           NONE, FALSE)
        ELSE IF rdr[r].status = CANCELLED
        THEN Done(dl, rl, [drv EXCEPT ![d] = arrived], rdr,
                  << DriverRequest(e.timestamp, d) >>, notes, NONE, FALSE)
        ELSE Done(dl, rl, [drv EXCEPT ![d] = arrived], rdr, <<>>, notes,
                  NONE, FALSE)

\* a Dropoff after which the driver asks for work one tick later
Dropoff_do_requests_later(e, dl, rl, drv, rdr) ==
    LET d == e.driver
        r == e.rider
        arrived == end_ride(drv[d])
    IN  Done(dl, rl, [drv EXCEPT ![d] = arrived], rdr,
             << DriverRequest(e.timestamp + 1, d) >>,
             << Note(e.timestamp, DRIVER, DROPOFF, arrived.id,
                     arrived.location),
                Note(e.timestamp, RIDER, DROPOFF, rdr[r].identifier,
                     rdr[r].destination) >>,
             NONE, FALSE)

Dropoff_do(e, dl, rl, drv, rdr) ==
    LET d == e.driver
        r == e.rider
        arrived == end_ride(drv[d])
    IN  Done(dl, rl, [drv EXCEPT ![d] = arrived], rdr,
             << DriverRequest(e.timestamp, d) >>,
             << Note(e.timestamp, DRIVER, DROPOFF, arrived.id,
                     arrived.location),
                Note(e.timestamp, RIDER, DROPOFF, rdr[r].identifier,
                     rdr[r].destination) >>,
             NONE, FALSE)

\* Event.do, by the class of the event
do(e, dl, rl, drv, rdr) ==
    CASE e.kind = "RiderRequest" -> RiderRequest_do(e, dl, rl, drv, rdr)
      [] e.kind = "DriverRequest" -> DriverRequest_do(e, dl, rl, drv, rdr)
      [] e.kind = "Cancellation" -> Cancellation_do(e, dl, rl, drv, rdr)
      [] e.kind = "Pickup" -> Pickup_do(e, dl, rl, drv, rdr)
      [] e.kind = "Dropoff" -> Dropoff_do(e, dl, rl, drv, rdr)

(***************************************************************************)
(* Spec: the simulation.  create_event_list builds the initial batch, one  *)
(* request per line, making a Driver or Rider at the first mention of its  *)
(* id and using the same object afterwards; the run loop adds the batch to *)
(* the event queue, then removes one event at a time, calls its do and     *)
(* adds the events it returns, until the queue is empty.  An exception     *)
(* leaving do ends the run.                                                *)
(***************************************************************************)
\* two places 5 apart: 5 / 2 is rounded to 2, the even neighbour
Locs == { Location(0, 0), Location(0, 5) }
\* the speed a driver's first line gives it, by driver
Speeds == <<2, 1>>
\* the patience a rider's first line gives it, by rider
Patiences == <<0, 2>>
\* the timestamps of the lines of the input
BatchTimes == {0, 1}
\* the rides asked for: from one location to the other
Rides == { od \in Locs \X Locs : od[1] # od[2] }

\* the objects are numbered in the order of their first mention
NextRider(r) == \A q \in Riders : q < r => rider[q].identifier # NONE
NextDriver(d) == \A q \in Drivers : q < d => driver[q].id # NONE

Init ==
    /\ driver = [d \in Drivers |-> UnbornDriver]
    /\ rider = [r \in Riders |-> UnbornRider]
    /\ driver_list = <<>>
    /\ rider_list = <<>>
    /\ items = <<>>
    /\ phase = "load"
    /\ last = NoCall
    /\ added = <<>>
    /\ removes = 0
    /\ log = <<>>

\* a line "t RiderRequest id origin destination patience"
LoadRiderRequest(t, r, origin, destination, patience) ==
    /\ phase = "load"
    /\ Len(items) < MaxBatch
    /\ NextRider(r)
    /\ rider' = IF rider[r].identifier = NONE
                THEN [rider EXCEPT ![r] = Rider(r, patience, origin, destination)]
                ELSE rider
    /\ items' = add(items, RiderRequest(t, r))
    /\ UNCHANGED <<driver, driver_list, rider_list, phase, last, added, removes, log>>

\* a line "t DriverRequest id location speed"
LoadDriverRequest(t, d, location, speed) ==
    /\ phase = "load"
    /\ Len(items) < MaxBatch
    /\ NextDriver(d)
    /\ driver' = IF driver[d].id = NONE
                 THEN [driver EXCEPT ![d] = Driver(d, location, speed)]
                 ELSE driver
    /\ items' = add(items, DriverRequest(t, d))
    /\ UNCHANGED <<rider, driver_list, rider_list, phase, last, added, removes, log>>

\* the batch is complete: the run loop starts
Start ==
    /\ phase = "load"
    /\ phase' = "run"
    /\ UNCHANGED <<driver, rider, driver_list, rider_list, items, last, added, removes, log>>

RECURSIVE add_all(_, _)
add_all(q, events) ==
    IF events = <<>> THEN q ELSE add_all(add(q, Head(events)), Tail(events))

\* one turn of the run loop, on an event of the given kind
Step(kind) ==
    /\ phase = "run"
    /\ ~is_empty(items)
    /\ remove_item(items).kind = kind
    /\ LET e == remove_item(items)
           o == do(e, driver_list, rider_list, driver, rider)
       IN  /\ driver_list' = o.dl
           /\ rider_list' = o.rl
           /\ driver' = o.drv
           /\ rider' = o.rdr
           /\ log' = log \o o.notes
           /\ items' = IF o.raised THEN remove_rest(items)
                       ELSE add_all(remove_rest(items), o.events)
           /\ phase' = IF o.raised THEN "crashed" ELSE "run"
           /\ last' = Call(kind, e.driver, e.rider, o.ret, o.raised, e,
                           o.events)
    /\ removes' = removes + 1
    /\ UNCHANGED added

Next ==
    \/ \E t \in BatchTimes, r \in Riders, ride \in Rides :
            LoadRiderRequest(t, r, ride[1], ride[2], Patiences[r])
    \/ \E t \in BatchTimes, d \in Drivers, location \in Locs :
            LoadDriverRequest(t, d, location, Speeds[d])
    \/ Start
    \/ Step("RiderRequest")
    \/ Step("DriverRequest")
    \/ Step("Cancellation")
    \/ Step("Pickup")
    \/ Step("Dropoff")

Spec == Init /\ [][Next]_vars

(***************************************************************************)
(* Properties of the simulation                                            *)
(***************************************************************************)
\* C10: in every state the simulation reaches, whatever the initial batch,
\* every driver has a destination exactly while it is not idle.
C10_DestinationIffBusy ==
    \A d \in Drivers : (driver[d].destination # NoLoc) <=> ~driver[d].is_idle

\* C10 witness: after a Pickup one driver is on a ride, with a destination,
\* while another driver, that has driven and arrived, is idle without one
C10_Witness ==
    /\ phase = "run"
    /\ last.op = "Pickup"
    /\ \E d, e \in Drivers :
          /\ ~driver[d].is_idle /\ driver[d].destination # NoLoc
          /\ driver[e].is_idle /\ driver[e].destination = NoLoc
          /\ \E k \in DOMAIN log :
                log[k].category = DRIVER /\ log[k].description = DROPOFF
                    /\ log[k].id = e

\* C11: over a run a rider's status changes only from WAITING to CANCELLED
\* or from WAITING to SATISFIED; a Cancellation leaves a SATISFIED rider
\* SATISFIED and a Pickup leaves a CANCELLED rider CANCELLED.
C11_StatusNeverReverses ==
    [][ /\ \A r \in Riders :
              rider'[r].status # rider[r].status =>
                  /\ rider[r].status = WAITING
                  /\ rider'[r].status \in {CANCELLED, SATISFIED}
        /\ (last'.op = "Cancellation" /\ last'.was = SATISFIED) =>
              rider'[last'.rider].status = SATISFIED
        /\ (last'.op = "Pickup" /\ last'.was = CANCELLED) =>
              rider'[last'.rider].status = CANCELLED
      ]_vars

\* C11 witness: a Cancellation was executed for a rider already picked up,
\* who is still SATISFIED, and another rider is CANCELLED
C11_Witness ==
    /\ last.op = "Cancellation"
    /\ last.was = SATISFIED
    /\ rider[last.rider].status = SATISFIED
    /\ \E r \in Riders : rider[r].status = CANCELLED

\* rider r is in the waiting pool
InPool(r) == Count(rider_list, r) > 0

\* the number of RiderRequests of rider r in the initial batch: those
\* executed (each reported REQUEST) and those still in the queue
RiderRequestsOf(r) ==
    Len(SelectSeq(log, LAMBDA n : n.category = RIDER
                                   /\ n.description = REQUEST /\ n.id = r))
      + Len(SelectSeq(items, LAMBDA e : e.kind = "RiderRequest"
                                          /\ e.rider = r))

\* each rider appears in at most one RiderRequest of the initial batch
SingleRequests == \A r \in Riders : RiderRequestsOf(r) <= 1

\* what an event does to the pool membership of rider r: a RiderRequest of
\* r puts r in the pool exactly if no driver was returned, a match of r (by
\* request_rider; request_driver is the RiderRequest case) or an effective
\* Cancellation of r takes r out, anything else leaves r in or out.
\* Holding at every event, from an empty pool, this is: r is in the pool
\* iff its RiderRequest was executed and r was since neither matched nor
\* cancelled.
PoolRule(r) ==
    (phase = "run" /\ phase' = "run") =>
        (Count(rider_list', r) > 0) =
            IF last'.op = "RiderRequest" /\ last'.rider = r
            THEN last'.ret = NONE
            ELSE IF \/ last'.op = "DriverRequest" /\ last'.ret = r
                    \/ /\ last'.op = "Cancellation" /\ last'.rider = r
                       /\ last'.was # SATISFIED
            THEN FALSE
            ELSE InPool(r)

\* C12 as claimed: in every state between two events a rider is in the
\* pool iff its RiderRequest has been executed and it has since been
\* neither matched nor cancelled; every rider in the pool is WAITING.
C12_Original ==
    /\ [](phase = "run" =>
             \A r \in Riders : InPool(r) => rider[r].status = WAITING)
    /\ [][\A r \in Riders : PoolRule(r)]_vars

\* C12 amended: the same, for initial batches in which each rider appears
\* in at most one RiderRequest.
C12_PoolOfSingleRequests ==
    /\ [](phase = "run" /\ SingleRequests =>
             \A r \in Riders : InPool(r) => rider[r].status = WAITING)
    /\ [][SingleRequests => \A r \in Riders : PoolRule(r)]_vars

\* C12 witness: in a run of single requests one rider is waiting in the
\* pool, another has left the waiting state, and a Cancellation has
\* taken effect
C12_Witness ==
    /\ phase = "run"
    /\ SingleRequests
    /\ \E r, q \in Riders :
          /\ InPool(r)
          /\ ~InPool(q) /\ rider[q].status # WAITING
          /\ RiderRequestsOf(q) = 1
    /\ \E k \in DOMAIN log : log[k].description = CANCEL

\* the events of one class among those an event emitted
OfKind(events, kind) == SelectSeq(events, LAMBDA e : e.kind = kind)

\* round(distance(from, to) / speed), found without round
TravelTime(from, to, speed) ==
    NearestEven(to_int(manhattan_distance(from, to)), speed)

\* what the execution of RiderRequest(t, rider) is claimed to do: one
\* Cancellation, for the rider, at t + patience; with a driver returned,
\* one Pickup(driver, rider) at t + round(distance / speed) and the driver
\* not idle, bound for the rider's origin; with none returned, no Pickup
RiderRequestEffects ==
    LET e == last'.event
        r == e.rider
        d == last'.ret
        out == last'.emitted
    IN  /\ OfKind(out, "Cancellation")
              = << Cancellation(e.timestamp + rider[r].patience, r) >>
        /\ d # NONE =>
              /\ OfKind(out, "Pickup")
                    = << Pickup(e.timestamp
                                  + TravelTime(driver[d].location,
                                               rider[r].origin,
                                               driver[d].speed), d, r) >>
              /\ ~driver'[d].is_idle
              /\ driver'[d].destination = rider[r].origin
        /\ d = NONE => OfKind(out, "Pickup") = <<>>
        /\ Len(out) = Len(OfKind(out, "Cancellation"))
                        + Len(OfKind(out, "Pickup"))

\* C13 as claimed: executing RiderRequest(t, rider) always emits exactly
\* one Cancellation for the rider at t + rider.patience; if a driver is
\* returned, also exactly one Pickup(driver, rider) at t + round(distance(
\* driver.location, rider.origin) / driver.speed), leaving that driver not
\* idle with destination rider.origin; if none is returned, no Pickup.
C13_Original ==
    [][last'.op = "RiderRequest" => RiderRequestEffects]_vars

\* C13, the part that holds: the same of every RiderRequest whose do
\* returns
C13_RiderRequestThatReturns ==
    [][(last'.op = "RiderRequest" /\ ~last'.raised) => RiderRequestEffects]_vars

\* C13 witness: a RiderRequest was matched to a driver 5 away at speed 2,
\* its Pickup is 2 later (5 / 2 rounded to the even neighbour), the driver
\* is on its way to the rider's origin
C13_Witness ==
    /\ last.op = "RiderRequest"
    /\ last.ret # NONE
    /\ driver[last.ret].speed = 2
    /\ driver[last.ret].location # rider[last.rider].origin
    /\ ~driver[last.ret].is_idle
    /\ driver[last.ret].destination = rider[last.rider].origin
    /\ \E k \in DOMAIN last.emitted :
          /\ last.emitted[k].kind = "Pickup"
          /\ last.emitted[k].timestamp = last.event.timestamp + 2

\* C13, the failing case: a RiderRequest raised in the scan of the drivers
\* (an idle registered driver has no location) and emitted nothing
C13_RiderRequestRaised ==
    /\ last.op = "RiderRequest"
    /\ last.raised
    /\ last.emitted = <<>>
    /\ \E k \in DOMAIN driver_list :
          driver[driver_list[k]].is_idle
              /\ driver[driver_list[k]].location = NoLoc


\* what the execution of DriverRequest(t, driver) is claimed to do: the
\* driver is registered; with an empty pool nothing is emitted and the
\* driver is as before; otherwise one Pickup(driver, rider) is emitted for
\* the rider at the head of the pool, at t + round(distance / speed), the
\* time of the drive started by the dispatcher
DriverRequestEffects ==
    LET e == last'.event
        d == e.driver
        out == last'.emitted
    IN  /\ Count(driver_list', d) > 0
        /\ rider_list = <<>> =>
              /\ out = <<>>
              /\ driver'[d] = driver[d]
        /\ rider_list # <<>> =>
              /\ ~last'.raised
              /\ out = << Pickup(e.timestamp
                                   + TravelTime(driver[d].location,
                                                rider[Head(rider_list)].origin,
                                                driver[d].speed),
                                 d, Head(rider_list)) >>
              /\ driver'[d].destination = rider[Head(rider_list)].origin
              /\ out[1].timestamp - e.timestamp
                    = to_int(get_travel_time(driver'[d],
                                             driver'[d].destination))

\* C14 as claimed: executing DriverRequest(t, driver) registers the driver;
\* if the pool is empty it emits nothing and leaves the driver's state
\* unchanged; otherwise it emits exactly one Pickup(driver, rider) for the
\* rider at the head of the pool at t + round(distance(driver.location,
\* rider.origin) / driver.speed), the travel time of the drive the
\* dispatcher started.
C14_Original ==
    [][last'.op = "DriverRequest" => DriverRequestEffects]_vars

\* C14, the part that holds: the same of every DriverRequest of a driver
\* that has a location
C14_DriverRequestWithLocation ==
    [][(last'.op = "DriverRequest" /\ driver[last'.driver].location # NoLoc)
           => DriverRequestEffects]_vars

\* C14 witness: a DriverRequest of a driver of speed 2 found a rider
\* waiting 5 away and emitted the Pickup 2 later; another DriverRequest
\* has found the pool empty before
C14_Witness ==
    /\ last.op = "DriverRequest"
    /\ last.ret # NONE
    /\ driver[last.driver].speed = 2
    /\ last.emitted = << Pickup(last.event.timestamp + 2, last.driver,
                                last.ret) >>
    /\ driver[last.driver].location # driver[last.driver].destination
    /\ Len(SelectSeq(log, LAMBDA n : n.category = DRIVER
                                      /\ n.description = REQUEST)) > 1

\* C14, the failing case: a DriverRequest of a driver without location
\* took a rider from the pool, raised and emitted nothing
C14_DriverRequestRaised ==
    /\ last.op = "DriverRequest"
    /\ last.raised
    /\ last.emitted = <<>>
    /\ driver[last.driver].location = NoLoc
    /\ Count(driver_list, last.driver) > 0


\* the list l without the first x in it
WithoutFirst(l, x) ==
    IF \E k \in DOMAIN l : l[k] = x
    THEN LET k == CHOOSE i \in DOMAIN l :
                      l[i] = x /\ \A j \in 1..(i - 1) : l[j] # x
         IN  SubSeq(l, 1, k - 1) \o SubSeq(l, k + 1, Len(l))
    ELSE l

\* what a Cancellation does whatever the rider's status: it emits nothing
\* and touches no driver and no other rider; for a SATISFIED rider nothing
\* changes and nothing is reported; otherwise CANCEL is reported and the
\* rider is CANCELLED
CancellationEffects ==
    LET e == last'.event
        r == e.rider
    IN  /\ last'.emitted = <<>>
        /\ ~last'.raised
        /\ UNCHANGED <<driver, driver_list>>
        /\ \A q \in Riders \ {r} : rider'[q] = rider[q]
        /\ rider[r].status = SATISFIED => UNCHANGED <<rider, rider_list, log>>
        /\ rider[r].status # SATISFIED =>
              /\ log' = Append(log, Note(e.timestamp, RIDER, CANCEL, r,
                                         rider[r].origin))
              /\ rider'[r] = [rider[r] EXCEPT !.status = CANCELLED]

\* C15 as claimed: executing Cancellation(t, rider) emits no follow-up
\* events; if the rider is SATISFIED it changes nothing (status, pool and
\* drivers unchanged, no CANCEL reported); otherwise it reports CANCEL and
\* leaves the rider CANCELLED and absent from the waiting pool.
C15_Original ==
    [][last'.op = "Cancellation" =>
          /\ CancellationEffects
          /\ rider[last'.rider].status # SATISFIED =>
                Count(rider_list', last'.rider) = 0 ]_vars

\* C15 amended: the same, except that the Cancellation of a rider that is
\* not SATISFIED takes the rider's first occurrence out of the pool: the
\* rider is absent afterwards iff it was in the pool at most once.
C15_CancellationTakesOneOut ==
    [][last'.op = "Cancellation" =>
          /\ CancellationEffects
          /\ rider[last'.rider].status # SATISFIED =>
                /\ rider_list' = WithoutFirst(rider_list, last'.rider)
                /\ (Count(rider_list', last'.rider) = 0)
                       <=> (Count(rider_list, last'.rider) <= 1) ]_vars

\* C15 witness: the Cancellation of a WAITING rider that was in the pool
\* twice reported CANCEL and left the rider CANCELLED and in the pool once
C15_Witness ==
    /\ last.op = "Cancellation"
    /\ last.was = WAITING
    /\ last.had = 2
    /\ rider[last.rider].status = CANCELLED
    /\ Count(rider_list, last.rider) = 1
    /\ log[Len(log)] = Note(last.event.timestamp, RIDER, CANCEL, last.rider,
                            rider[last.rider].origin)


\* what the execution of Pickup(t, driver, rider) is claimed to do, by the
\* status of the rider: WAITING, the rider is SATISFIED, the driver not
\* idle and bound for the rider's destination, one Dropoff(driver, rider)
\* is emitted; CANCELLED, the driver is idle without destination, the
\* rider CANCELLED, one DriverRequest(t, driver) is emitted
PickupEffects ==
    LET e == last'.event
        d == e.driver
        r == e.rider
        out == last'.emitted
    IN  /\ rider[r].status = WAITING =>
              /\ rider'[r].status = SATISFIED
              /\ ~driver'[d].is_idle
              /\ driver'[d].destination = rider[r].destination
              /\ Len(out) = 1
              /\ out[1].kind = "Dropoff"
              /\ out[1].driver = d
              /\ out[1].rider = r
        /\ rider[r].status = CANCELLED =>
              /\ rider'[r].status = CANCELLED
              /\ driver'[d].is_idle
              /\ driver'[d].destination = NoLoc
              /\ out = << DriverRequest(e.timestamp, d) >>

\* C16 as claimed: executing Pickup(t, driver, rider) with the rider
\* WAITING sets the rider SATISFIED, leaves the driver not idle with
\* destination rider.destination and emits exactly one Dropoff(driver,
\* rider); with the rider CANCELLED it leaves the driver idle without
\* destination and the rider CANCELLED and emits exactly one
\* DriverRequest(driver) with timestamp t.
C16_Original ==
    [][last'.op = "Pickup" => PickupEffects]_vars

\* C16, the part that holds: the same of every Pickup whose do returns
C16_PickupThatReturns ==
    [][(last'.op = "Pickup" /\ ~last'.raised) => PickupEffects]_vars

\* C16 witness: a Pickup found its rider CANCELLED and sent the driver,
\* idle again, for new work, after an earlier Pickup of a WAITING rider
C16_Witness ==
    /\ last.op = "Pickup"
    /\ last.was = CANCELLED
    /\ ~last.raised
    /\ driver[last.driver].is_idle
    /\ last.emitted = << DriverRequest(last.event.timestamp, last.driver) >>
    /\ \E r \in Riders : rider[r].status = SATISFIED

\* C16, the failing case: the Pickup of a WAITING rider raised in
\* start_ride, the driver having no location; the rider is still WAITING
\* and no Dropoff was emitted
C16_PickupRaised ==
    /\ last.op = "Pickup"
    /\ last.was = WAITING
    /\ last.raised
    /\ last.emitted = <<>>
    /\ rider[last.rider].status = WAITING
    /\ driver[last.driver].location = NoLoc


\* C17 as claimed: immediately after any Dropoff(t, driver, rider) is
\* executed the driver's location is the rider's destination, the driver
\* is idle and has no destination.
C17_Original ==
    [][last'.op = "Dropoff" =>
          /\ driver'[last'.driver].location = rider[last'.rider].destination
          /\ driver'[last'.driver].is_idle
          /\ driver'[last'.driver].destination = NoLoc ]_vars

\* C17, the part that holds: after any Dropoff the driver is idle without
\* destination, at the place that was its destination; that place is the
\* rider's destination if the driver was bound for it
C17_DropoffEndsTheRide ==
    [][last'.op = "Dropoff" =>
          /\ driver'[last'.driver].location = driver[last'.driver].destination
          /\ driver'[last'.driver].is_idle
          /\ driver'[last'.driver].destination = NoLoc
          /\ driver[last'.driver].destination = rider[last'.rider].destination
                => driver'[last'.driver].location
                       = rider[last'.rider].destination ]_vars

\* C17 witness: after a Dropoff the driver is idle at the rider's
\* destination
C17_Witness ==
    /\ last.op = "Dropoff"
    /\ driver[last.driver].location = rider[last.rider].destination
    /\ driver[last.driver].is_idle
    /\ driver[last.driver].destination = NoLoc
    /\ rider[last.rider].status = SATISFIED

\* C17, the failing case: after a Dropoff the driver has no location
C17_DropoffWithoutLocation ==
    /\ last.op = "Dropoff"
    /\ ~last.raised
    /\ driver[last.driver].location = NoLoc
    /\ driver[last.driver].is_idle


\* the notes of one actor and action among the notes n
Reports(n, category, description, identifier) ==
    SelectSeq(n, LAMBDA x : x.category = category
                              /\ x.description = description
                              /\ x.id = identifier)

\* C18: executing Dropoff(t, driver, rider) emits exactly one follow-up
\* event, DriverRequest(t, driver); it reports DROPOFF at t for the driver
\* and for the rider and nothing else; it changes no rider and no pool.
C18_DropoffRequestsAgain ==
    [][last'.op = "Dropoff" =>
          LET e == last'.event
              new == SubSeq(log', Len(log) + 1, Len(log'))
          IN  /\ ~last'.raised
              /\ last'.emitted = << DriverRequest(e.timestamp, e.driver) >>
              /\ SubSeq(log', 1, Len(log)) = log
              /\ Len(new) = 2
              /\ \A k \in 1..2 : new[k].time = e.timestamp
              /\ Len(Reports(new, DRIVER, DROPOFF, e.driver)) = 1
              /\ Len(Reports(new, RIDER, DROPOFF, e.rider)) = 1
              /\ UNCHANGED <<rider, rider_list, driver_list>> ]_vars

\* C18 witness: a Dropoff at a time above 0 was executed while a rider
\* waited in the pool; the driver's request for new work is in the queue
\* at the time of the Dropoff
C18_Witness ==
    /\ last.op = "Dropoff"
    /\ last.event.timestamp > 0
    /\ rider_list # <<>>
    /\ rider[last.rider].status = SATISFIED
    /\ \E k \in DOMAIN items :
          items[k] = DriverRequest(last.event.timestamp, last.driver)
    /\ Len(log) >= 2
    /\ log[Len(log)].description = DROPOFF
    /\ log[Len(log) - 1].description = DROPOFF


\* the Pickup just executed emitted one Dropoff, at the time of the Pickup
\* plus round(distance(rider.origin, rider.destination) / driver.speed)
DropoffAfterRideTime ==
    LET e == last'.event
        d == e.driver
        r == e.rider
    IN  /\ Len(OfKind(last'.emitted, "Dropoff")) = 1
        /\ OfKind(last'.emitted, "Dropoff")[1].timestamp
              = e.timestamp + TravelTime(rider[r].origin,
                                         rider[r].destination,
                                         driver[d].speed)

\* C19 as claimed: for every Pickup(t, driver, rider) executed while the
\* rider is WAITING, the emitted Dropoff's timestamp is t + round(distance(
\* rider.origin, rider.destination) / driver.speed).
C19_Original ==
    [][(last'.op = "Pickup" /\ rider[last'.rider].status = WAITING)
           => DropoffAfterRideTime]_vars

\* C19, the part that holds: the same of every such Pickup whose driver
\* was driving to the rider's origin
C19_RideTimeFromOrigin ==
    [][(/\ last'.op = "Pickup"
        /\ rider[last'.rider].status = WAITING
        /\ driver[last'.driver].destination = rider[last'.rider].origin)
           => DropoffAfterRideTime]_vars

\* C19 witness: a Pickup of a WAITING rider by a driver of speed 2 that
\* arrived at the rider's origin emitted the Dropoff 2 later, for a ride
\* of distance 5
C19_Witness ==
    /\ last.op = "Pickup"
    /\ last.was = WAITING
    /\ driver[last.driver].speed = 2
    /\ driver[last.driver].location = rider[last.rider].origin
    /\ driver[last.driver].destination = rider[last.rider].destination
    /\ last.emitted = << Dropoff(last.event.timestamp + 2, last.driver,
                                 last.rider) >>

\* C19, the failing case: a Pickup of a WAITING rider found the driver
\* elsewhere than at the rider's origin, at the rider's destination, and
\* emitted the Dropoff for the time of the Pickup
C19_RideFromElsewhere ==
    /\ last.op = "Pickup"
    /\ last.was = WAITING
    /\ ~last.raised
    /\ driver[last.driver].location = rider[last.rider].destination
    /\ last.emitted = << Dropoff(last.event.timestamp, last.driver,
                                 last.rider) >>


\* the Cancellations of rider r waiting in the queue
PendingCancellations(r) ==
    SelectSeq(items, LAMBDA e : e.kind = "Cancellation" /\ e.rider = r)

\* no driver is registered and no DriverRequest is left: in a run, no
\* driver ever registers
NoDriverRegisters ==
    /\ phase = "run"
    /\ driver_list = <<>>
    /\ OfKind(items, "DriverRequest") = <<>>

\* rider r becomes CANCELLED only by a Cancellation, whose time is at
\* least t + patience for every RiderRequest of r executed, at t, so far;
\* no RiderRequest is executed for, or leaves, a CANCELLED rider
CancelledNoEarlier(r) ==
    /\ (rider[r].status # CANCELLED /\ rider'[r].status = CANCELLED) =>
          /\ last'.op = "Cancellation"
          /\ last'.rider = r
          /\ \A k \in DOMAIN log :
                (log[k].category = RIDER /\ log[k].description = REQUEST
                    /\ log[k].id = r)
                  => last'.event.timestamp >= log[k].time + rider[r].patience
    /\ (last'.op = "RiderRequest" /\ last'.rider = r) =>
          rider'[r].status # CANCELLED

\* when no driver ever registers: a RiderRequest emits its Cancellation,
\* at t + patience, and nothing else
AloneEmitsCancellation ==
    (NoDriverRegisters /\ last'.op = "RiderRequest") =>
        last'.emitted = << Cancellation(last'.event.timestamp
                                          + rider[last'.rider].patience,
                                        last'.rider) >>

\* when no driver ever registers: a rider that has requested is WAITING
\* and in the pool while a Cancellation of it is in the queue, and
\* CANCELLED once none is
AloneWaitsThenCancelled(r) ==
    (NoDriverRegisters /\ Reports(log, RIDER, REQUEST, r) # <<>>) =>
        IF PendingCancellations(r) # <<>>
        THEN rider[r].status = WAITING /\ InPool(r)
        ELSE rider[r].status = CANCELLED

\* C20 as claimed: a rider whose RiderRequest executes at t is never
\* CANCELLED before the event at t + patience is processed; if no driver
\* ever registers, the RiderRequest yields no Pickup and exactly one
\* Cancellation at t + patience, the rider stays WAITING and in the pool
\* until then and is CANCELLED afterwards.
C20_Original ==
    /\ [][\A r \in Riders : CancelledNoEarlier(r)]_vars
    /\ [][AloneEmitsCancellation]_vars
    /\ [](\A r \in Riders : AloneWaitsThenCancelled(r))

\* C20 amended: the same, from an initial batch in which each rider
\* appears in at most one RiderRequest; the emission of one Cancellation
\* at t + patience, and of no Pickup, holds whatever the batch.
C20_PatienceOfSingleRequests ==
    /\ [][SingleRequests => \A r \in Riders : CancelledNoEarlier(r)]_vars
    /\ [][AloneEmitsCancellation]_vars
    /\ [](SingleRequests => \A r \in Riders : AloneWaitsThenCancelled(r))

\* C20 witness: no driver registers; the rider of patience 0 was
\* cancelled by its Cancellation while the rider of patience 2, requested
\* once, is WAITING in the pool, its Cancellation due 2 after its request
C20_Witness ==
    /\ NoDriverRegisters
    /\ SingleRequests
    /\ last.op = "Cancellation"
    /\ rider[last.rider].status = CANCELLED
    /\ rider[last.rider].patience = 0
    /\ \E r \in Riders :
          /\ rider[r].patience = 2
          /\ rider[r].status = WAITING
          /\ InPool(r)
          /\ Len(PendingCancellations(r)) = 1
          /\ \E k \in DOMAIN log :
                /\ log[k].category = RIDER /\ log[k].description = REQUEST
                /\ log[k].id = r
                /\ PendingCancellations(r)[1].timestamp = log[k].time + 2


\* the classes of events
EventKinds ==
    {"RiderRequest", "DriverRequest", "Cancellation", "Pickup", "Dropoff"}

\* C21: in any run the events are executed in non-decreasing timestamp
\* order: every event emitted by a do has a timestamp not less than that
\* of the event that emitted it, so no event in the queue is earlier than
\* the event being processed, and the next event executed is not earlier
\* than the one before.
C21_TimeNeverGoesBack ==
    [][phase = "run" =>
          /\ \A k \in DOMAIN last'.emitted :
                last'.emitted[k].timestamp >= last'.event.timestamp
          /\ \A k \in DOMAIN items' :
                items'[k].timestamp >= last'.event.timestamp
          /\ last.op \in EventKinds =>
                last'.event.timestamp >= last.event.timestamp ]_vars

\* C21 witness: a Pickup at a time above 0 emitted a Dropoff strictly
\* later, which waits in the queue behind an event due before it
C21_Witness ==
    /\ last.op = "Pickup"
    /\ last.event.timestamp > 0
    /\ Len(last.emitted) = 1
    /\ last.emitted[1].timestamp > last.event.timestamp
    /\ \E k, j \in DOMAIN items :
          /\ k < j
          /\ items[j] = last.emitted[1]
          /\ items[k].timestamp < items[j].timestamp


\* C22: PriorityQueue.remove on an empty queue fails with an error and
\* returns no value, leaving the queue empty; is_empty is true exactly
\* when as many removes have returned as there have been adds.
C22_EmptyQueue ==
    /\ [](is_empty(items) <=> (Len(added) = removes))
    /\ [][(last'.op = "remove" /\ is_empty(items)) =>
              /\ last'.raised
              /\ last'.event = NoEvent
              /\ is_empty(items') ]_vars
    /\ [][(last'.op = "remove" /\ ~is_empty(items)) => ~last'.raised]_vars

\* C22 witness: after two adds and two removes that returned, a third
\* remove has failed on the empty queue
C22_Witness ==
    /\ last.op = "remove"
    /\ last.raised
    /\ is_empty(items)
    /\ Len(added) = 2
    /\ removes = 2


\* the requests of the riders, then those of the drivers, all at time 1
RidersThenDrivers ==
    << RiderRequest(1, 1), RiderRequest(1, 2),
       DriverRequest(1, 1), DriverRequest(1, 2) >>

DriversThenRiders ==
    << DriverRequest(1, 1), DriverRequest(1, 2),
       RiderRequest(1, 1), RiderRequest(1, 2) >>

EndedWithoutDestination ==
    /\ last'.op \in {"Pickup", "Dropoff"}
    /\ driver[last'.driver].destination = NoLoc

\* C24 as claimed: end_drive or end_ride called while the driver's
\* destination is none fails and leaves the driver's location,
\* destination and is_idle unchanged.
C24_Original ==
    [][EndedWithoutDestination =>
          /\ last'.raised
          /\ driver'[last'.driver] = driver[last'.driver] ]_vars

\* C24, what the code does instead: the call returns and leaves the driver
\* idle, without destination and without location; the event fails only
\* if it goes on to start a ride (the Pickup of a WAITING rider)
C24_EndsSilently ==
    [][EndedWithoutDestination =>
          /\ driver'[last'.driver].location = NoLoc
          /\ last'.raised <=>
                (last'.op = "Pickup" /\ rider[last'.rider].status = WAITING)
          /\ ~last'.raised =>
                driver'[last'.driver] =
                    [driver[last'.driver] EXCEPT !.location = NoLoc,
                                                 !.is_idle = TRUE] ]_vars

\* C24, the failing case: a Pickup of a CANCELLED rider has ended a drive
\* that had no destination; nothing failed, the driver is idle and has no
\* location
C24_DriveEndedNowhere ==
    /\ last.op = "Pickup"
    /\ last.was = CANCELLED
    /\ ~last.raised
    /\ driver[last.driver].location = NoLoc
    /\ driver[last.driver].destination = NoLoc
    /\ driver[last.driver].is_idle


\* round(n / speed) for a two-limb n, found without round whenever n is
\* less than 10^9
RoundedQuotient(n, speed) ==
    IF n[1] = 0 THEN Num(NearestEven(n[2], speed)) ELSE round(n, speed)

\* the driver d as start_drive or start_ride to the place x must leave it,
\* and the travel time the call must return
Started(d, x) ==
    /\ driver'[d] = [driver[d] EXCEPT !.is_idle = FALSE, !.destination = x]
    /\ driver'[d].location = driver[d].location
    /\ last'.ret = RoundedQuotient(manhattan_distance(driver[d].location, x),
                                   driver[d].speed)

\* the driver d as end_drive or end_ride must leave it
Ended(d) ==
    /\ driver'[d].location = driver[d].destination
    /\ driver'[d].destination = NoLoc
    /\ driver'[d].is_idle
    /\ driver'[d].id = driver[d].id
    /\ driver'[d].speed = driver[d].speed

\* C25: start_drive(loc) and start_ride(rider) set is_idle false and the
\* destination (loc, the rider's destination), leave the location and
\* return round(distance(location, destination) / speed), a tie going to
\* the even neighbour; end_drive and end_ride with a destination set the
\* location to it, clear it and set is_idle true; so start_drive(x)
\* followed by end_drive leaves the driver idle at x.
C25_DriverStateMachine ==
    [][ /\ last'.op = "start_drive" =>
              Started(last'.driver, rider[last'.rider].origin)
        /\ last'.op = "start_ride" =>
              Started(last'.driver, rider[last'.rider].destination)
        /\ (last'.op \in {"end_drive", "end_ride"}
               /\ driver[last'.driver].destination # NoLoc) =>
              Ended(last'.driver)
        /\ (last.op = "start_drive" /\ last'.op = "end_drive"
               /\ last'.driver = last.driver) =>
              /\ driver'[last'.driver].location = rider[last.rider].origin
              /\ driver'[last'.driver].is_idle
      ]_vars

\* C25 witness: a driver of speed 2 has started a drive to a place at
\* distance 1 and the call returned 0, the even neighbour of 1 / 2
C25_Witness ==
    /\ last.op = "start_drive"
    /\ driver[last.driver].speed = 2
    /\ manhattan_distance(driver[last.driver].location,
                          driver[last.driver].destination) = Num(1)
    /\ last.ret = Num(0)
    /\ ~driver[last.driver].is_idle


\* the Pickups and Dropoffs of driver d waiting in the queue
PendingJobs(d) ==
    SelectSeq(items, LAMBDA e : e.kind \in {"Pickup", "Dropoff"}
                                  /\ e.driver = d)

\* the driver that the event just executed paired with a rider, if any
Paired ==
    IF last'.ret = NONE THEN NONE
    ELSE IF last'.op = "RiderRequest" THEN last'.ret
    ELSE IF last'.op = "DriverRequest" THEN last'.driver
    ELSE NONE

\* C26 as claimed: a driver is never matched to a rider while it is not
\* idle: whenever request_driver (in a RiderRequest) or request_rider (in
\* a DriverRequest) pairs a driver with a rider the driver was idle just
\* before, so a driver never has more than one Pickup or Dropoff in the
\* queue.
C26_Original ==
    /\ [][Paired # NONE => driver[Paired].is_idle]_vars
    /\ [](\A d \in Drivers : Len(PendingJobs(d)) <= 1)

\* C26, the part that holds: the driver that request_driver pairs with the
\* rider of a RiderRequest was idle, without destination, just before,
\* and is not idle afterwards, whatever DriverRequests are in the queue
C26_RiderRequestPairsIdle ==
    [][(last'.op = "RiderRequest" /\ last'.ret # NONE) =>
          /\ driver[last'.ret].is_idle
          /\ driver[last'.ret].destination = NoLoc
          /\ ~driver'[last'.ret].is_idle ]_vars

\* C26 witness: a RiderRequest was paired with an idle driver while a
\* DriverRequest of that driver, of the same time, is in the queue
C26_Witness ==
    /\ last.op = "RiderRequest"
    /\ last.ret # NONE
    /\ ~driver[last.ret].is_idle
    /\ \E k \in DOMAIN items :
          items[k] = DriverRequest(last.event.timestamp, last.ret)

\* C26, the failing case: a DriverRequest paired its driver with a rider
\* while the driver has a Pickup in the queue; now it has two
C26_DoubleBooked ==
    /\ last.op = "DriverRequest"
    /\ last.ret # NONE
    /\ ~last.raised
    /\ Len(PendingJobs(last.driver)) = 2
    /\ \A k \in DOMAIN items :
          items[k].driver = last.driver => items[k].kind = "Pickup"


\* the PICKUP that the Pickup just executed reported for its driver
DriverPickupNote == log'[Len(log) + 1]

\* C27 as claimed: whenever a Pickup(t, driver, rider) is executed the
\* driver's destination just before it is the rider's origin, so the
\* drive ends at the rider's origin and the PICKUP reported for the driver
\* is at the rider's origin.
C27_Original ==
    [][last'.op = "Pickup" =>
          /\ driver[last'.driver].destination = rider[last'.rider].origin
          /\ DriverPickupNote
                = Note(last'.event.timestamp, DRIVER, PICKUP, last'.driver,
                       rider[last'.rider].origin) ]_vars

\* C27, the part that holds: the PICKUP reported for the driver is at the
\* driver's destination just before the Pickup, where the drive ends;
\* that is the rider's origin if the driver was driving there
C27_PickupWhereTheDriveEnds ==
    [][last'.op = "Pickup" =>
          /\ DriverPickupNote
                = Note(last'.event.timestamp, DRIVER, PICKUP, last'.driver,
                       driver[last'.driver].destination)
          /\ driver'[last'.driver].location
                = driver[last'.driver].destination
          /\ driver[last'.driver].destination = rider[last'.rider].origin
                => DriverPickupNote.location = rider[last'.rider].origin
      ]_vars

\* C27 witness: a Pickup of a WAITING rider was executed by a driver that
\* drove 5 to the rider's origin; its PICKUP is reported there
C27_Witness ==
    /\ last.op = "Pickup"
    /\ last.was = WAITING
    /\ ~last.raised
    /\ driver[last.driver].location = rider[last.rider].origin
    /\ log[Len(log) - 1] = Note(last.event.timestamp, DRIVER, PICKUP,
                                last.driver, rider[last.rider].origin)
    /\ \E k \in DOMAIN log :
          /\ log[k].category = DRIVER /\ log[k].description = REQUEST
          /\ log[k].id = last.driver
          /\ log[k].location # rider[last.rider].origin

\* C27, the failing case: a Pickup of a CANCELLED rider was executed by a
\* driver that had driven elsewhere; its PICKUP is reported at a place
\* that is not the rider's origin
C27_PickupElsewhere ==
    /\ last.op = "Pickup"
    /\ last.was = CANCELLED
    /\ driver[last.driver].location # NoLoc
    /\ driver[last.driver].location # rider[last.rider].origin
    /\ log[Len(log)] = Note(last.event.timestamp, DRIVER, PICKUP,
                            last.driver, driver[last.driver].location)


\* C28 as claimed: in every state of every run every driver's location is
\* a location, never none: no Pickup or Dropoff is executed for a driver
\* whose destination is none.
C28_Original ==
    /\ [](\A d \in Drivers : driver[d].location # NoLoc)
    /\ [][last'.op \in {"Pickup", "Dropoff"} =>
              driver[last'.driver].destination # NoLoc]_vars

\* C28, the part that holds: a driver has a location when the run starts,
\* and loses it only by a Pickup or a Dropoff of its own executed while
\* its destination is none
C28_LocationLostOnlyByEnding ==
    /\ [](phase = "load" => \A d \in Drivers : driver[d].location # NoLoc)
    /\ [][\A d \in Drivers :
              (driver[d].location # NoLoc /\ driver'[d].location = NoLoc) =>
                  /\ last'.op \in {"Pickup", "Dropoff"}
                  /\ last'.driver = d
                  /\ driver[d].destination = NoLoc ]_vars

\* C28, the failing case: a DriverRequest was executed, and reported, for
\* a registered idle driver that has no location
C28_DriverNowhere ==
    /\ last.op = "DriverRequest"
    /\ ~last.raised
    /\ driver[last.driver].location = NoLoc
    /\ driver[last.driver].is_idle
    /\ Count(driver_list, last.driver) > 0
    /\ log[Len(log)] = Note(last.event.timestamp, DRIVER, REQUEST,
                            last.driver, NoLoc)


\* C29: in every state of a run from an initial batch in which each rider
\* appears in at most one RiderRequest, no rider occurs more than once in
\* the waiting pool.
C29_NoRiderTwiceInPool ==
    SingleRequests => \A r \in Riders : Count(rider_list, r) <= 1

\* C29 witness: each rider was requested once; one waits in the pool,
\* once, while a driver is on its way with or to the other
C29_Witness ==
    /\ phase = "run"
    /\ SingleRequests
    /\ \E r, q \in Riders :
          /\ r # q
          /\ rider_list = <<r>>
          /\ RiderRequestsOf(q) = 1
          /\ Reports(log, RIDER, REQUEST, q) # <<>>
          /\ rider[q].status # CANCELLED
    /\ \E d \in Drivers : ~driver[d].is_idle


(***************************************************************************)
(* The simulation run to its end: the run loop takes the next event as     *)
(* long as the queue is not empty and no event has raised.  A raised       *)
(* exception leaves the loop, and nothing is executed after it.            *)
(***************************************************************************)
\* a turn of the run loop, told by its remove: under Next it is a Step
RunLoop ==
    /\ phase = "run"
    /\ ~is_empty(items)
    /\ removes' = removes + 1

SpecRun == Spec /\ WF_removes(RunLoop)

\* the RiderRequest of rider r has been executed
Requested(r) == Reports(log, RIDER, REQUEST, r) # <<>>

\* rider r has been made, by a line of the batch
Exists(r) == rider[r].identifier # NONE

\* rider r is CANCELLED or SATISFIED
Settled(r) == rider[r].status \in {CANCELLED, SATISFIED}

\* C30 as claimed: from a batch in which each rider appears in at most one
\* RiderRequest, every rider whose RiderRequest is executed is eventually
\* CANCELLED or SATISFIED, and when the queue is exhausted no rider is
\* WAITING and the pool is empty.
C30_Original ==
    /\ \A r \in Riders :
          (SingleRequests /\ Requested(r)) ~> Settled(r)
    /\ []((SingleRequests /\ phase # "load" /\ is_empty(items)) =>
             /\ \A r \in Riders : Exists(r) => rider[r].status # WAITING
             /\ rider_list = <<>>)

\* C30, the part that holds: the same of the runs in which no event
\* raises
C30_SettledUnlessRaised ==
    /\ \A r \in Riders :
          (SingleRequests /\ Requested(r))
              ~> (Settled(r) \/ phase = "crashed")
    /\ []((SingleRequests /\ phase = "run" /\ is_empty(items)) =>
             /\ \A r \in Riders : Exists(r) => rider[r].status # WAITING
             /\ rider_list = <<>>)

\* C30 witness: the queue is exhausted after a run of single requests in
\* which one rider was cancelled and the other taken to its destination
C30_Witness ==
    /\ phase = "run"
    /\ is_empty(items)
    /\ SingleRequests
    /\ rider_list = <<>>
    /\ \E r, q \in Riders :
          rider[r].status = CANCELLED /\ rider[q].status = SATISFIED
    /\ \E k \in DOMAIN log : log[k].description = DROPOFF

\* C30, the failing case: an event has raised and ended the run while a
\* rider, requested once, is WAITING, its Cancellation still in the queue
C30_RunEndedWhileWaiting ==
    /\ phase = "crashed"
    /\ SingleRequests
    /\ \E r \in Riders :
          /\ Requested(r)
          /\ rider[r].status = WAITING
          /\ PendingCancellations(r) # <<>>

(***************************************************************************)
(* Termination of the run.                                                 *)
(***************************************************************************)
\* the run loop has left by exhaustion of the queue
Exhausted == phase = "run" /\ is_empty(items)

\* a DriverRequest that emits a follow-up takes a rider out of the pool,
\* and only a RiderRequest puts a rider into the pool
PoolIsTheMeasure ==
    /\ [][(last'.op = "DriverRequest" /\ last'.emitted # <<>>) =>
             Len(rider_list') = Len(rider_list) - 1]_vars
    /\ [][Len(rider_list') > Len(rider_list) =>
             last'.op = "RiderRequest"]_vars

\* C31 as claimed: from any batch of RiderRequests and DriverRequests the
\* run ends by exhaustion of the queue; every DriverRequest that emits a
\* follow-up removes a rider from the pool and riders enter the pool only
\* by a RiderRequest.
C31_Original ==
    /\ (phase = "run") ~> Exhausted
    /\ PoolIsTheMeasure

\* C31, the part that holds: the run ends, by exhaustion of the queue or
\* by an event that raises, and the pool is the measure the claim gives
C31_EndsByExhaustionOrRaise ==
    /\ (phase = "run") ~> (Exhausted \/ phase = "crashed")
    /\ [](phase = "crashed" => [](phase = "crashed"))
    /\ PoolIsTheMeasure

\* C31 witness: the queue is exhausted after a Dropoff's DriverRequest
\* found the pool empty
C31_Witness ==
    /\ Exhausted
    /\ last.op = "DriverRequest"
    /\ last.emitted = <<>>
    /\ \E k \in DOMAIN log : log[k].description = DROPOFF

\* C31, the failing case: a Pickup has raised and the run has ended with
\* a DriverRequest left in the queue
C31_EndedWithEventsLeft ==
    /\ phase = "crashed"
    /\ last.op = "Pickup"
    /\ last.raised
    /\ OfKind(items, "DriverRequest") # <<>>

(***************************************************************************)
(* Work conservation.                                                      *)
(***************************************************************************)
\* driver d is in the dispatcher's fleet
Registered(d) == \E k \in DOMAIN driver_list : driver_list[k] = d

\* the DriverRequests of driver d in the event queue
PendingRequests(d) ==
    SelectSeq(items, LAMBDA e : e.kind = "DriverRequest" /\ e.driver = d)

(***************************************************************************)
(* The simulation on a batch with a rider far away: the drivers register   *)
(* at 0, the riders ask at 1; the first rider, of patience 0, is at        *)
(* Location(20000000000, 0), the second asks for a ride between two        *)
(* locations 5 apart.                                                      *)
(***************************************************************************)
FarRides == { <<FarAway, Location(0, 0)>> }
RidesOf(r) == IF r = 1 THEN FarRides ELSE Rides

NextFar ==
    \/ \E r \in Riders : \E ride \in RidesOf(r) :
            LoadRiderRequest(1, r, ride[1], ride[2], Patiences[r])
    \/ \E d \in Drivers, location \in Locs :
            LoadDriverRequest(0, d, location, Speeds[d])
    \/ Start
    \/ Step("RiderRequest")
    \/ Step("DriverRequest")
    \/ Step("Cancellation")
    \/ Step("Pickup")
    \/ Step("Dropoff")

SpecFar == Init /\ [][NextFar]_vars

\* driver d would be passed over by request_driver for rider r: its travel
\* time to the rider's origin is not below the scan's initial minimum
OutOfReach(d, r) ==
    ~num_lt(get_travel_time(driver[d], rider[r].origin), InitialMin)

\* C32 as claimed: between two events of a run of single RiderRequests, if
\* the pool is not empty then every registered idle driver has a
\* DriverRequest pending in the event queue.
C32_Original ==
    (phase = "run" /\ SingleRequests /\ rider_list # <<>>) =>
        \A d \in Drivers :
            (Registered(d) /\ driver[d].is_idle) => PendingRequests(d) # <<>>

\* C32, the part that holds: between two events of a run of single
\* RiderRequests, a registered idle driver without a pending DriverRequest
\* is out of reach of every rider of the pool.
C32_IdleOnlyIfOutOfReach ==
    (phase = "run" /\ SingleRequests) =>
        \A d \in Drivers :
            (Registered(d) /\ driver[d].is_idle /\ PendingRequests(d) = <<>>)
                => \A k \in DOMAIN rider_list : OutOfReach(d, rider_list[k])

\* C32, the failing case: after its RiderRequest the rider far away waits
\* in the pool while a registered driver is idle and no DriverRequest is
\* in the queue
C32_IdleBesideWaitingRider ==
    /\ phase = "run"
    /\ SingleRequests
    /\ last.op = "RiderRequest"
    /\ last.ret = NONE
    /\ rider_list = <<last.rider>>
    /\ rider[last.rider].status = WAITING
    /\ \E d \in Drivers : Registered(d) /\ driver[d].is_idle
    /\ OfKind(items, "DriverRequest") = <<>>

(***************************************************************************)
(* First come, first served.                                               *)
(***************************************************************************)
\* the Pickups emitted by the step: the matches made by a RiderRequest or
\* a DriverRequest
Matches ==
    IF last'.op \in {"RiderRequest", "DriverRequest"}
    THEN OfKind(last'.emitted, "Pickup") ELSE <<>>

\* the riders other than r that have been in the pool since before a
\* RiderRequest of r: all of the pool when the step is r's RiderRequest,
\* and when r is taken from the pool, those in front of a later entry of r
AheadOf(r) ==
    IF last'.op = "RiderRequest"
    THEN { rider_list[k] : k \in DOMAIN rider_list } \ {r}
    ELSE { rider_list[i] : i \in { i \in DOMAIN rider_list :
                \E j \in DOMAIN rider_list : i < j /\ rider_list[j] = r } }
           \ {r}

\* C33 as claimed: a rider whose RiderRequest is executed while another
\* rider is in the pool is not matched to a driver before that rider has
\* left the pool.
C33_Original ==
    [][\A k \in DOMAIN Matches : AheadOf(Matches[k].rider) = {}]_vars

\* C33, the part that holds: a DriverRequest matches the rider at the head
\* of the pool, and a RiderRequest matches its rider only to an idle
\* driver that is out of reach of every rider in the pool.
C33_HeadOfPoolUnlessOutOfReach ==
    [][\A k \in DOMAIN Matches :
          LET m == Matches[k]
          IN  /\ last'.op = "DriverRequest" =>
                    rider_list # <<>> /\ m.rider = Head(rider_list)
              /\ last'.op = "RiderRequest" =>
                    /\ driver[m.driver].is_idle
                    /\ \A q \in AheadOf(m.rider) : OutOfReach(m.driver, q)]_vars

\* C33, the failing case: a RiderRequest has matched its rider to a driver
\* while the rider far away, requested before, is in the pool
C33_ServedBeforeEarlierRider ==
    /\ phase = "run"
    /\ last.op = "RiderRequest"
    /\ last.ret # NONE
    /\ \E q \in Riders :
          /\ q # last.rider
          /\ Count(rider_list, q) > 0
          /\ rider[q].status = WAITING
          /\ Reports(log, RIDER, REQUEST, q) # <<>>

(***************************************************************************)
(* The notifications about one rider.                                      *)
(***************************************************************************)
\* what the monitor was told about rider r, in order
Told(r) ==
    LET notes == SelectSeq(log, LAMBDA x : x.category = RIDER /\ x.id = r)
    IN  [k \in DOMAIN notes |-> notes[k].description]

\* s is the beginning of t
IsPrefix(s, t) == Len(s) <= Len(t) /\ SubSeq(t, 1, Len(s)) = s

\* the notifications of rider r are REQUEST then CANCEL, or REQUEST then
\* PICKUP then DROPOFF, or the beginning of one of these
InOrder(r) ==
    \/ IsPrefix(Told(r), <<REQUEST, CANCEL>>)
    \/ IsPrefix(Told(r), <<REQUEST, PICKUP, DROPOFF>>)

PickedUp(r) == Reports(log, RIDER, PICKUP, r) # <<>>
DroppedOff(r) == Reports(log, RIDER, DROPOFF, r) # <<>>

(***************************************************************************)
(* The simulation on a batch of three riders and two drivers, all lines at *)
(* 0: every rider asks for the ride from (0,0) to (0,5); the second rider  *)
(* has patience 0.  The batch has at most MaxRideBatch lines.              *)
(***************************************************************************)
MaxRideBatch == 6
RideRiders == {1, 2, 3}
RidePatiences == <<2, 0, 2>>

InitRide ==
    /\ driver = [d \in Drivers |-> UnbornDriver]
    /\ rider = [r \in RideRiders |-> UnbornRider]
    /\ driver_list = <<>>
    /\ rider_list = <<>>
    /\ items = <<>>
    /\ phase = "load"
    /\ last = NoCall
    /\ added = <<>>
    /\ removes = 0
    /\ log = <<>>

\* a line "0 RiderRequest id 0,0 0,5 patience"
RideRiderRequest(r) ==
    /\ phase = "load"
    /\ Len(items) < MaxRideBatch
    /\ \A q \in RideRiders : q < r => rider[q].identifier # NONE
    /\ rider' = IF rider[r].identifier = NONE
                THEN [rider EXCEPT ![r] = Rider(r, RidePatiences[r],
                                                Location(0, 0), Location(0, 5))]
                ELSE rider
    /\ items' = add(items, RiderRequest(0, r))
    /\ UNCHANGED <<driver, driver_list, rider_list, phase, last, added, removes, log>>

\* a line "0 DriverRequest id location speed"
RideDriverRequest(d, location) ==
    /\ phase = "load"
    /\ Len(items) < MaxRideBatch
    /\ NextDriver(d)
    /\ driver' = IF driver[d].id = NONE
                 THEN [driver EXCEPT ![d] = Driver(d, location, Speeds[d])]
                 ELSE driver
    /\ items' = add(items, DriverRequest(0, d))
    /\ UNCHANGED <<rider, driver_list, rider_list, phase, last, added, removes, log>>

NextRide ==
    \/ \E r \in RideRiders : RideRiderRequest(r)
    \/ \E d \in Drivers, location \in Locs : RideDriverRequest(d, location)
    \/ Start
    \/ Step("RiderRequest")
    \/ Step("DriverRequest")
    \/ Step("Cancellation")
    \/ Step("Pickup")
    \/ Step("Dropoff")

SpecRide == InitRide /\ [][NextRide]_vars /\ WF_removes(RunLoop)

\* each of the three riders appears in at most one RiderRequest of the
\* initial batch
EachRiderOnce == \A r \in RideRiders : RiderRequestsOf(r) <= 1

\* C34 as claimed: from a batch of single RiderRequests, the notifications
\* about one rider are REQUEST, then a single CANCEL or a single PICKUP,
\* never both, a DROPOFF only after the PICKUP and at most once; and every
\* rider that is told PICKUP is eventually told DROPOFF.
C34_Original ==
    /\ [](EachRiderOnce => \A r \in RideRiders : InOrder(r))
    /\ \A r \in RideRiders : (EachRiderOnce /\ PickedUp(r)) ~> DroppedOff(r)

\* C34, the part that holds: the same order, and the DROPOFF follows the
\* PICKUP unless an event raises
C34_InOrderUnlessRaised ==
    /\ [](EachRiderOnce => \A r \in RideRiders : InOrder(r))
    /\ \A r \in RideRiders :
          (EachRiderOnce /\ PickedUp(r))
              ~> (DroppedOff(r) \/ phase = "crashed")

\* C34 witness: one rider was told REQUEST, PICKUP, DROPOFF and another
\* REQUEST, CANCEL
C34_Witness ==
    /\ EachRiderOnce
    /\ \E r, q \in RideRiders :
          /\ Told(r) = <<REQUEST, PICKUP, DROPOFF>>
          /\ Told(q) = <<REQUEST, CANCEL>>

\* C34, the failing case: an event has raised and ended the run after a
\* rider was told PICKUP, its Dropoff still in the queue
C34_RunEndedDuringRide ==
    /\ phase = "crashed"
    /\ EachRiderOnce
    /\ \E r \in RideRiders :
          /\ Told(r) = <<REQUEST, PICKUP>>
          /\ \E k \in DOMAIN items :
                items[k].kind = "Dropoff" /\ items[k].rider = r

====
